---- MODULE Spec2Model ----
(***************************************************************************)
(* A model of the DDEX ERN 3.8 message builder (package ddex): the message *)
(* header, the four top-level entity lists and the sub-builders that hold  *)
(* pointers into them, the territory sections of a resource or release,    *)
(* and NewReleaseMessage.Validate.                                          *)
(*                                                                         *)
(* Go slices are modelled as the language defines them: a slice header     *)
(* (backing array, len, cap) stored in the owning struct, and backing      *)
(* arrays that live in a heap.  append writes in place while len < cap and *)
(* otherwise allocates a new array and copies the cells; a pointer         *)
(* &slice[i] names a cell of the backing array the slice had when the      *)
(* pointer was taken.                                                      *)
(***************************************************************************)
EXTENDS Integers, Sequences, FiniteSets, TLC

\* ---------------------------------------------------------------- bounds

\* Entities in the four top-level lists together (videos, images, releases,
\* release deals).
MaxEntities == 2
\* Territory sections per entity.
MaxSections == 2
\* Values (titles, warnings) set in the territory sections of one entity.
MaxValues == 2
\* Releases, and release deals, in a message handed to Validate.
MaxChecked == 2
\* Deals per release-deal wrapper.
MaxDeals == 2
\* Content items in the resource groups of a release together.
MaxItems == 2
\* Linked resource references in the resource groups of a release together.
MaxLinks == 2
\* Recipients per message header.
MaxRecipients == 2
\* Sub-builder calls made while several entities share the lists.
MaxCalls == 2

\* The longest duration formatted and parsed, in seconds.
MaxSeconds == 7325

\* ------------------------------------------------------------ input sets

Kinds == {"Video", "Image", "Release", "ReleaseDeal", "ResourceGroup", "Deal"}

\* The readings time.Now() can give.
Times == {0, 1}
\* The spare cells a reallocating append may leave behind the appended one
\* (the runtime rounds the new array up to an allocation size).
Slack == {0, 1}

MessageIds == {"", "M1"}
ThreadIds == {"", "T1"}
SenderIds == {"PADPIDA0000000001S"}
SenderNames == {"Label", "Other Label"}
RecipientIds == {"PADPIDA2013020802I", "PADPIDA2015120100H"}
RecipientNames == {"YouTube", "YouTube_ContentID"}

ResourceRefs == {"A1"}
ReleaseRefs == {"R1", "R2"}
RefsOf(kind) == IF kind \in {"Release", "ReleaseDeal"} THEN ReleaseRefs ELSE ResourceRefs

CodeLists == {<<>>, <<"Worldwide">>, <<"US">>, <<"US", "CA">>}
Titles == {"X", "Y"}
Warnings == {"Explicit"}
Durations == {"PT3M10S"}
Dates == {"2023-01-01"}
GroupTitles == {"Disc 1"}
ItemRefs == {"A1"}
LinkRefs == {"A2"}
DealCodeLists == {<<>>, <<"US">>}
StartDates == {"2024-01-01"}
EndDates == {"2024-12-31"}
StartDateTimes == {"2024-01-01T00:00:00"}
CommercialModels == {"SubscriptionModel"}
UseTypes == {"Stream"}
PolicyTypes == {"Monetize"}
ReleaseDates == {"2023", "2023-12-01"}

\* ----------------------------------------------------------------- state

VARIABLES
    header,     \* Message.MessageHeader: <<>> (nil) or <<the header record>>
    clock,      \* the last reading of time.Now
    lists,      \* kind -> the slice header of Message.<List>.<Kind>
    entArr,     \* kind -> heap: the backing arrays of []<Kind>
    secArr,     \* kind -> heap: the backing arrays of []<Kind>DetailsByTerritory
    builders,   \* kind -> the <Kind>Builders handed out so far, in creation order
    verdict,    \* <<>>, or <<e>> with e the error the last Validate() returned
    calls,      \* the number of sub-builder calls counted so far
    root,       \* the attributes and list pointers of the root NewReleaseMessage
    io,         \* the file at the path, and what the last ToXML / WriteToFile did
    dur,        \* the seconds, text and parse result of the duration helpers
    nav,        \* <<>>, or <<p>> with p the builder the last Done() returned
    util        \* <<>>, or the call of a validator or codec: function, input, result

vars == <<header, clock, lists, entArr, secArr, builders, verdict, calls, root, io, dur, nav, util>>
restVars == <<root, io, dur, nav, util>>
headerVars == <<header, clock>>
treeVars == <<lists, entArr, secArr, builders>>

\* The constants of the ERN 3.8 schema.
MessageSchemaVersionId == "ern/382"
XmlnsErn == "http://ddex.net/xml/ern/382"
XmlnsXsi == "http://www.w3.org/2001/XMLSchema-instance"
XsiSchemaLocation ==
    "http://ddex.net/xml/ern/382 http://ddex.net/xml/ern/382/release-notification.xsd"

\* ---------------------------------------------------------------- slices

NilSlice == [arr |-> 0, len |-> 0, cap |-> 0]

\* The cells a slice header h reads in heap H.
Cells(h, H) == IF h.arr = 0 THEN <<>> ELSE SubSeq(H[h.arr], 1, h.len)

\* A store to cell i of a backing array (a backing array is kept as the
\* sequence of its cells written so far).
WriteAt(a, i, c) == IF i <= Len(a) THEN [a EXCEPT ![i] = c] ELSE Append(a, c)

\* The capacities append may give the slice h when one cell is appended: the
\* same array while len < cap, otherwise a new array that is sufficiently
\* large (the runtime rounds the size up).
GrowCaps(h) ==
    IF h.len < h.cap THEN {h.cap}
    ELSE {h.len + 1 + s : s \in Slack}

\* As AppendSlice, but a reallocating append puts the new cell in front of
\* the copied ones.
AppendSliceMutPrepend(h, H, c, newcap) ==
    IF h.len < h.cap
    THEN [hdr |-> [h EXCEPT !.len = @ + 1],
          heap |-> [H EXCEPT ![h.arr] = WriteAt(@, h.len + 1, c)]]
    ELSE [hdr |-> [arr |-> Len(H) + 1, len |-> h.len + 1, cap |-> newcap],
          heap |-> Append(H, <<c>> \o Cells(h, H))]

\* append(h, c) in heap H: the new slice header and the new heap.
AppendSlice(h, H, c, newcap) ==
    IF h.len < h.cap
    THEN [hdr |-> [h EXCEPT !.len = @ + 1],
          heap |-> [H EXCEPT ![h.arr] = WriteAt(@, h.len + 1, c)]]
    ELSE [hdr |-> [arr |-> Len(H) + 1, len |-> h.len + 1, cap |-> newcap],
          heap |-> Append(H, Append(Cells(h, H), c))]

\* --------------------------------------------------------------- header

NilRecipients == [nil |-> TRUE, elems |-> <<>>]

Party(id, name) == [PartyId |-> <<id>>, PartyName |-> <<name>>]

\* &MessageHeader{}
EmptyHeader ==
    [MessageThreadId |-> "", MessageId |-> "", MessageSender |-> <<>>,
     MessageRecipient |-> NilRecipients, MessageCreatedDateTime |-> <<>>]

\* The header WithMessageHeader builds at time now.
NewHeader(messageId, threadId, senderDPID, senderName, now) ==
    [MessageThreadId |-> threadId, MessageId |-> messageId,
     MessageSender |-> <<Party(senderDPID, senderName)>>,
     MessageRecipient |-> NilRecipients, MessageCreatedDateTime |-> <<now>>]

\* append(recipients, r) on a slice of pointers: never nil afterwards.
AppendRecipient(rs, r) == [nil |-> FALSE, elems |-> Append(rs.elems, r)]

\* As HeaderOrEmpty, but the existing header is dropped.
HeaderOrEmptyMutReset(h) == EmptyHeader

\* The header AddRecipient works on: the existing one, or a new empty one.
HeaderOrEmpty(h) == IF h = <<>> THEN EmptyHeader ELSE h[1]

\* As WithMessageHeader, but the recipients of the header it replaces are kept.
WithMessageHeaderMutMerge(messageId, threadId, senderDPID, senderName) ==
    /\ \E now \in {t \in Times : t >= clock} :
          /\ clock' = now
          /\ header' = <<[NewHeader(messageId, threadId, senderDPID, senderName, now)
                            EXCEPT !.MessageRecipient = HeaderOrEmpty(header).MessageRecipient]>>
    /\ verdict' = <<>>
    /\ UNCHANGED <<treeVars, restVars>>

\* Builder.WithMessageHeader: time.Now() does not run backwards.
WithMessageHeader(messageId, threadId, senderDPID, senderName) ==
    /\ \E now \in {t \in Times : t >= clock} :
          /\ clock' = now
          /\ header' = <<NewHeader(messageId, threadId, senderDPID, senderName, now)>>
    /\ verdict' = <<>>
    /\ UNCHANGED <<treeVars, restVars>>

\* Builder.AddRecipient
AddRecipient(dpid, name) ==
    /\ Len(HeaderOrEmpty(header).MessageRecipient.elems) < MaxRecipients
    /\ header' = <<[HeaderOrEmpty(header) EXCEPT
                      !.MessageRecipient = AppendRecipient(@, Party(dpid, name))]>>
    /\ verdict' = <<>>
    /\ UNCHANGED <<clock, treeVars, restVars>>

\* Builder.AddYouTubeRecipient
AddYouTubeRecipient == AddRecipient("PADPIDA2013020802I", "YouTube")

\* Builder.AddYouTubeContentIDRecipient
AddYouTubeContentIDRecipient == AddRecipient("PADPIDA2015120100H", "YouTube_ContentID")

\* ------------------------------------------------------------- entities

\* One element of Video / Image / Release / ReleaseDeal: the reference, the
\* fields set directly on the struct, the slice header of its
\* ...DetailsByTerritory field, and (release deal) the number of its deals.
NewEntity(ref) ==
    [ref |-> ref, Duration |-> "", CreationDate |-> "", secs |-> NilSlice,
     Deal |-> 0, ReleaseDate |-> NilSlice, OriginalReleaseDate |-> NilSlice,
     ReleaseId |-> NilSlice, VideoEdition |-> NilSlice]

\* VideoDetailsByTerritory{TerritoryCode: codes} (and the image and release
\* counterparts).
NewSection(codes) ==
    [TerritoryCode |-> codes, ExcludedTerritoryCode |-> <<>>,
     Title |-> <<>>, ParentalWarningType |-> <<>>]

\* The builder state as one value, so that a method that calls another
\* method is the composition of the two.
Tree == [lists |-> lists, ent |-> entArr, sec |-> secArr, bld |-> builders]

SetTree(t) ==
    /\ lists' = t.lists
    /\ entArr' = t.ent
    /\ secArr' = t.sec
    /\ builders' = t.bld

\* NewDDEXBuilder(): empty lists, no header.
EmptyTree ==
    [lists |-> [k \in Kinds |-> NilSlice], ent |-> [k \in Kinds |-> <<>>],
     sec |-> [k \in Kinds |-> <<>>], bld |-> [k \in Kinds |-> <<>>]]

\* The builder a sub-builder of kind k is created from, and returns to.
Parent(k) ==
    CASE k = "ResourceGroup" -> "ReleaseBuilder"
      [] k = "Deal" -> "ReleaseDealBuilder"
      [] OTHER -> "Builder"

\* The pointer a sub-builder keeps: &list[len(list)-1], taken after the append.
Slot(new) == [arr |-> new.arr, idx |-> new.len]

\* As AddEntity, but the sub-builder keeps the address of the local value that
\* was copied into the list.
AddEntityMutLocalCopy(t, k, ref, newcap) ==
    LET r == AppendSlice(t.lists[k], t.ent[k], NewEntity(ref), newcap)
    IN  [t EXCEPT !.lists[k] = r.hdr,
                  !.ent[k] = Append(r.heap, <<NewEntity(ref)>>),
                  !.bld[k] = Append(@, [ent |-> [arr |-> Len(r.heap) + 1, idx |-> 1],
                                        cur |-> <<>>, parent |-> Parent(k)])]

\* Builder.AddVideo / AddImage / AddRelease / AddReleaseDeal on tree t: append
\* the entity to its list, then hand out a sub-builder on the appended slot.
AddEntity(t, k, ref, newcap) ==
    LET r == AppendSlice(t.lists[k], t.ent[k], NewEntity(ref), newcap)
    IN  [t EXCEPT !.lists[k] = r.hdr,
                  !.ent[k] = r.heap,
                  !.bld[k] = Append(@, [ent |-> Slot(r.hdr),
                                        cur |-> <<>>, parent |-> Parent(k)])]

AddAction(k, ref) ==
    /\ lists[k].len < MaxEntities
    /\ \E newcap \in GrowCaps(lists[k]) : SetTree(AddEntity(Tree, k, ref, newcap))
    /\ verdict' = <<>>
    /\ UNCHANGED <<headerVars, restVars>>

AddVideo(resourceRef) == AddAction("Video", resourceRef)
AddImage(resourceRef) == AddAction("Image", resourceRef)
AddRelease(releaseRef) == AddAction("Release", releaseRef)
AddReleaseDeal(releaseRef) == AddAction("ReleaseDeal", releaseRef)

\* --------------------------------------------------- reading the message

\* An entity cell with its territory sections read through its slice header.
Resolve(cell, S) ==
    [ref |-> cell.ref, Duration |-> cell.Duration,
     CreationDate |-> cell.CreationDate, Deal |-> cell.Deal,
     DetailsByTerritory |-> Cells(cell.secs, S),
     ReleaseDate |-> Cells(cell.ReleaseDate, S),
     OriginalReleaseDate |-> Cells(cell.OriginalReleaseDate, S),
     ReleaseId |-> Cells(cell.ReleaseId, S),
     VideoEdition |-> Cells(cell.VideoEdition, S)]

\* Build().<List>.<Kind>: the entities the message holds.
LiveOf(t, k) ==
    LET cs == Cells(t.lists[k], t.ent[k])
    IN  [i \in 1..Len(cs) |-> Resolve(cs[i], t.sec[k])]

Live(k) == LiveOf(Tree, k)

\* *vb.video: the entity a sub-builder's pointer names.
TargetCell(t, k, b) == t.ent[k][t.bld[k][b].ent.arr][t.bld[k][b].ent.idx]
ViewOf(t, k, b) == Resolve(TargetCell(t, k, b), t.sec[k])
View(k, b) == ViewOf(Tree, k, b)

\* *vb.currentTerritoryDetails
FocusOf(t, k, b) == t.sec[k][t.bld[k][b].cur[1].arr][t.bld[k][b].cur[1].idx]
Focus(k, b) == FocusOf(Tree, k, b)

BuildersOf(k) == 1..Len(builders[k])

RECURSIVE SumLen(_, _)
SumLen(secs, field) ==
    IF secs = <<>> THEN 0
    ELSE Len(Head(secs)[field]) + SumLen(Tail(secs), field)

\* The number of values held by the territory sections of a resolved entity.
ValuesIn(e) ==
    SumLen(e.DetailsByTerritory, "Title") + SumLen(e.DetailsByTerritory, "ParentalWarningType")

TotalEntities == lists["Video"].len + lists["Image"].len
                 + lists["Release"].len + lists["ReleaseDeal"].len

\* ------------------------------------------------- territory sub-builders

\* As FindTerritory, but a section matches when its whole code list is the
\* given one.
FindTerritoryMutFullMatch(secs, codes) ==
    LET hits == IF Len(codes) > 0
                THEN {i \in 1..Len(secs) : secs[i].TerritoryCode = codes}
                ELSE {}
    IN  IF hits = {} THEN 0 ELSE CHOOSE i \in hits : \A j \in hits : i <= j

\* The loop of WithTerritory: the index of the first section whose first
\* territory code is the first of the given codes, 0 when there is none.
FindTerritory(secs, codes) ==
    LET hits == IF Len(codes) > 0
                THEN {i \in 1..Len(secs) :
                        /\ Len(secs[i].TerritoryCode) > 0
                        /\ secs[i].TerritoryCode[1] = codes[1]}
                ELSE {}
    IN  IF hits = {} THEN 0 ELSE CHOOSE i \in hits : \A j \in hits : i <= j

\* "Create new territory details": append a section to the target entity's
\* section slice and focus on &sections[len-1].
CreateTerritory(t, k, b, codes, newcap) ==
    LET p == t.bld[k][b].ent
        r == AppendSlice(t.ent[k][p.arr][p.idx].secs, t.sec[k], NewSection(codes), newcap)
    IN  [t EXCEPT !.sec[k] = r.heap,
                  !.ent[k][p.arr][p.idx].secs = r.hdr,
                  !.bld[k][b].cur = <<[arr |-> r.hdr.arr, idx |-> r.hdr.len]>>]

\* As LookupOrCreate, but a section that is found is focused on through the
\* loop variable, a copy of it.
LookupOrCreateMutLoopCopy(t, k, b, codes, newcap) ==
    LET h == TargetCell(t, k, b).secs
        i == FindTerritory(Cells(h, t.sec[k]), codes)
    IN  IF i # 0
        THEN [t EXCEPT !.sec[k] = Append(@, <<t.sec[k][h.arr][i]>>),
                       !.bld[k][b].cur = <<[arr |-> Len(t.sec[k]) + 1, idx |-> 1]>>]
        ELSE CreateTerritory(t, k, b, codes, newcap)

\* VideoBuilder.WithTerritory / ImageBuilder.WithTerritory (the same code).
LookupOrCreate(t, k, b, codes, newcap) ==
    LET h == TargetCell(t, k, b).secs
        i == FindTerritory(Cells(h, t.sec[k]), codes)
    IN  IF i # 0
        THEN [t EXCEPT !.bld[k][b].cur = <<[arr |-> h.arr, idx |-> i]>>]
        ELSE CreateTerritory(t, k, b, codes, newcap)

\* <Kind>Builder.WithTerritory: ReleaseBuilder.WithTerritory has no lookup.
WithTerritoryOf(t, k, b, codes, newcap) ==
    IF k = "Release" THEN CreateTerritory(t, k, b, codes, newcap)
    ELSE LookupOrCreate(t, k, b, codes, newcap)

\* Whether WithTerritory(codes) appends a section.
Creates(t, k, b, codes) ==
    \/ k = "Release"
    \/ FindTerritory(ViewOf(t, k, b).DetailsByTerritory, codes) = 0

\* As ensureTerritory, but a default section is appended on every call.
ensureTerritoryMutDuplicate(t, k, b, newcap) == CreateTerritory(t, k, b, <<"Worldwide">>, newcap)

\* <Kind>Builder.ensureTerritory
ensureTerritory(t, k, b, newcap) ==
    IF t.bld[k][b].cur = <<>> THEN WithTerritoryOf(t, k, b, <<"Worldwide">>, newcap)
    ELSE t

\* vb.currentTerritoryDetails.<field> = append(vb.currentTerritoryDetails.<field>, v)
AppendToFocus(t, k, b, field, v) ==
    LET c == t.bld[k][b].cur[1]
    IN  [t EXCEPT !.sec[k][c.arr][c.idx][field] = Append(@, v)]

\* A territory-scoped setter: ensureTerritory(), then the append.
TerritorySetter(t, k, b, field, v, newcap) ==
    AppendToFocus(ensureTerritory(t, k, b, newcap), k, b, field, v)

\* vb.video.<field> = v
SetField(t, k, b, field, v) ==
    LET p == t.bld[k][b].ent
    IN  [t EXCEPT !.ent[k][p.arr][p.idx][field] = v]

SecCaps(k, b) == GrowCaps(TargetCell(Tree, k, b).secs)

Touch(t) ==
    /\ SetTree(t)
    /\ verdict' = <<>>
    /\ UNCHANGED <<headerVars, restVars>>

WithTerritoryAction(k, b, codes) ==
    /\ b \in BuildersOf(k)
    /\ Creates(Tree, k, b, codes) => Len(View(k, b).DetailsByTerritory) < MaxSections
    /\ \E newcap \in SecCaps(k, b) : Touch(WithTerritoryOf(Tree, k, b, codes, newcap))

TerritorySetterAction(k, b, field, v) ==
    /\ b \in BuildersOf(k)
    /\ \E newcap \in SecCaps(k, b) :
          /\ ValuesIn(View(k, b)) < MaxValues
          /\ Touch(TerritorySetter(Tree, k, b, field, v, newcap))

SetFieldAction(k, b, field, v) ==
    /\ b \in BuildersOf(k)
    /\ Touch(SetField(Tree, k, b, field, v))

VideoWithTerritory(b, codes) == WithTerritoryAction("Video", b, codes)
ImageWithTerritory(b, codes) == WithTerritoryAction("Image", b, codes)
ReleaseWithTerritory(b, codes) == WithTerritoryAction("Release", b, codes)

VideoWithTitle(b, title) == TerritorySetterAction("Video", b, "Title", title)
VideoWithParentalWarning(b, w) == TerritorySetterAction("Video", b, "ParentalWarningType", w)
ImageWithParentalWarning(b, w) == TerritorySetterAction("Image", b, "ParentalWarningType", w)
ReleaseWithParentalWarning(b, w) == TerritorySetterAction("Release", b, "ParentalWarningType", w)

VideoWithDuration(b, d) == SetFieldAction("Video", b, "Duration", d)
ImageWithCreationDate(b, d) == SetFieldAction("Image", b, "CreationDate", d)
ReleaseWithDuration(b, d) == SetFieldAction("Release", b, "Duration", d)

\* ReleaseDealBuilder.AddDeal: one more deal in the wrapper the builder names.
ReleaseDealAddDeal(b) ==
    /\ b \in BuildersOf("ReleaseDeal")
    /\ View("ReleaseDeal", b).Deal < MaxDeals
    /\ Touch(SetField(Tree, "ReleaseDeal", b, "Deal", View("ReleaseDeal", b).Deal + 1))

\* ------------------------------------------------------ resource groups

\* ReleaseBuilder.AddResourceGroup: the groups of the release under
\* construction are the list "ResourceGroup"; the group keeps its title as
\* its reference and its content items as its nested slice.
AddResourceGroup(titleText) == AddAction("ResourceGroup", titleText)

\* ResourceGroupContentItem{ReleaseResourceReference: resourceRef}
NewItem(resourceRef) ==
    [ReleaseResourceReference |-> resourceRef, LinkedReleaseResourceReference |-> <<>>]

\* rgb.group.ResourceGroupContentItem, read through the builder's pointer.
ItemsOf(t, b) ==
    Cells(TargetCell(t, "ResourceGroup", b).secs, t.sec["ResourceGroup"])
Items(b) == ItemsOf(Tree, b)

\* ResourceGroupBuilder.AddContentItem
AddContentItemOf(t, b, resourceRef, newcap) ==
    LET p == t.bld["ResourceGroup"][b].ent
        r == AppendSlice(TargetCell(t, "ResourceGroup", b).secs, t.sec["ResourceGroup"],
                         NewItem(resourceRef), newcap)
    IN  [t EXCEPT !.sec["ResourceGroup"] = r.heap,
                  !.ent["ResourceGroup"][p.arr][p.idx].secs = r.hdr]

\* As AddLinkedResourceOf, but the link goes to the first content item.
AddLinkedResourceOfMutFirst(t, b, resourceRef) ==
    LET h == TargetCell(t, "ResourceGroup", b).secs
    IN  IF h.len > 0
        THEN [t EXCEPT !.sec["ResourceGroup"][h.arr][1].LinkedReleaseResourceReference =
                            Append(@, resourceRef)]
        ELSE t

\* ResourceGroupBuilder.AddLinkedResource
AddLinkedResourceOf(t, b, resourceRef) ==
    LET h == TargetCell(t, "ResourceGroup", b).secs
    IN  IF h.len > 0
        THEN [t EXCEPT !.sec["ResourceGroup"][h.arr][h.len].LinkedReleaseResourceReference =
                            Append(@, resourceRef)]
        ELSE t

\* The content items, and the linked references, the group builders see.
TotalItems ==
    Cardinality(UNION {{<<b, i>> : i \in 1..Len(Items(b))} : b \in BuildersOf("ResourceGroup")})
TotalLinks ==
    Cardinality(UNION {{<<b, i, j>> : j \in 1..Len(Items(b)[i].LinkedReleaseResourceReference)} :
                           <<b, i>> \in UNION {{<<c, n>> : n \in 1..Len(Items(c))} :
                                                     c \in BuildersOf("ResourceGroup")}})

AddContentItem(b, resourceRef) ==
    /\ b \in BuildersOf("ResourceGroup")
    /\ TotalItems < MaxItems
    /\ \E newcap \in SecCaps("ResourceGroup", b) :
          Touch(AddContentItemOf(Tree, b, resourceRef, newcap))

AddLinkedResource(b, resourceRef) ==
    /\ b \in BuildersOf("ResourceGroup")
    /\ TotalLinks < MaxLinks
    /\ Touch(AddLinkedResourceOf(Tree, b, resourceRef))

\* --------------------------------------------------- release dates (4.3)

\* EventDateWithDefault{XMLName: xml.Name{Local: name}, Value: date}
EventDate(name, date) == [XMLName |-> name, Value |-> date]

\* append(rb.release.<field>, entry) on tree t.
AppendDate(t, b, field, entry, newcap) ==
    LET p == t.bld["Release"][b].ent
        r == AppendSlice(TargetCell(t, "Release", b)[field], t.sec["Release"], entry, newcap)
    IN  [t EXCEPT !.sec["Release"] = r.heap,
                  !.ent["Release"][p.arr][p.idx][field] = r.hdr]

\* As WithReleaseDateOf, but the original release date is left alone.
WithReleaseDateOfMutReleaseOnly(t, b, date, newcap) ==
    AppendDate(t, b, "ReleaseDate", EventDate("ReleaseDate", date), newcap)

\* ReleaseBuilder.WithReleaseDate (4.3): one entry more in both lists.
WithReleaseDateOf(t, b, date, newcap) ==
    AppendDate(AppendDate(t, b, "ReleaseDate", EventDate("ReleaseDate", date), newcap),
               b, "OriginalReleaseDate", EventDate("OriginalReleaseDate", date), newcap)

WithReleaseDate(b, date) ==
    /\ b \in BuildersOf("Release")
    /\ Len(View("Release", b).ReleaseDate) < MaxValues
    /\ \E newcap \in GrowCaps(TargetCell(Tree, "Release", b).ReleaseDate) :
          Touch(WithReleaseDateOf(Tree, b, date, newcap))

\* ----------------------------------------------------------- release ids

Icpns == {"036000291452"}
Isrcs == {"USABC2400001"}
Grids == {"A10302B0000114391T"}
Namespaces == {"DPID:PADPIDA2013020802I"}
ProprietaryValues == {"CH1", "CH2"}

\* ReleaseId{}; the proprietary ids of an entry are kept as the list of
\* their values.
NewReleaseId == [ICPN |-> "", ISRC |-> "", GRid |-> "", ProprietaryId |-> <<>>]

\* ProprietaryId{Namespace: namespace, Value: value}
NewProprietaryId(namespace, value) == [Namespace |-> namespace, Value |-> value]

\* append(<entity of builder b>.<field>, entry) on tree t.
AppendField(t, k, b, field, entry, newcap) ==
    LET p == t.bld[k][b].ent
        r == AppendSlice(TargetCell(t, k, b)[field], t.sec[k], entry, newcap)
    IN  [t EXCEPT !.sec[k] = r.heap, !.ent[k][p.arr][p.idx][field] = r.hdr]

\* As EnsureFirst, but the empty element is appended every time.
EnsureFirstMutAlways(t, k, b, field, empty, newcap) ==
    AppendField(t, k, b, field, empty, newcap)

\* if len(x.<field>) == 0 { x.<field> = append(x.<field>, empty) }
EnsureFirst(t, k, b, field, empty, newcap) ==
    IF TargetCell(t, k, b)[field].len = 0
    THEN AppendField(t, k, b, field, empty, newcap)
    ELSE t

\* A store to <entity of builder b>.<field>[0].<sub> on tree t.
WriteFirst(t, k, b, field, sub, v) ==
    [t EXCEPT !.sec[k][TargetCell(t, k, b)[field].arr][1][sub] = v]

\* <entity of builder b>.<field>[0].<sub>
ReadFirst(t, k, b, field, sub) ==
    t.sec[k][TargetCell(t, k, b)[field].arr][1][sub]

\* ReleaseBuilder.WithICPN / WithISRC / WithGRid: one more entry that holds
\* the identifier.
WithIdOf(t, b, id, v, newcap) ==
    AppendField(t, "Release", b, "ReleaseId", [NewReleaseId EXCEPT ![id] = v], newcap)

\* As AddProprietaryIdOf, but the id always comes in an entry of its own.
AddProprietaryIdOfMutOwnEntry(t, b, namespace, value, newcap) ==
    AppendField(t, "Release", b, "ReleaseId",
                [NewReleaseId EXCEPT
                    !.ProprietaryId = <<NewProprietaryId(namespace, value)>>],
                newcap)

\* ReleaseBuilder.AddProprietaryId: the first entry is there, then written.
AddProprietaryIdOf(t, b, namespace, value, newcap) ==
    LET u == EnsureFirst(t, "Release", b, "ReleaseId", NewReleaseId, newcap)
    IN  WriteFirst(u, "Release", b, "ReleaseId", "ProprietaryId",
                   Append(ReadFirst(u, "Release", b, "ReleaseId", "ProprietaryId"),
                          NewProprietaryId(namespace, value)))

\* The proprietary ids the entries of a list hold.
RECURSIVE ProprietaryIds(_)
ProprietaryIds(ids) ==
    IF ids = <<>> THEN 0
    ELSE Len(Head(ids).ProprietaryId) + ProprietaryIds(Tail(ids))

IdCaps(b) == GrowCaps(TargetCell(Tree, "Release", b).ReleaseId)

WithId(b, id, v) ==
    /\ b \in BuildersOf("Release")
    /\ Len(View("Release", b).ReleaseId) < MaxValues
    /\ \E newcap \in IdCaps(b) : Touch(WithIdOf(Tree, b, id, v, newcap))

ReleaseWithICPN(b, icpn) == WithId(b, "ICPN", icpn)
ReleaseWithISRC(b, isrc) == WithId(b, "ISRC", isrc)
ReleaseWithGRid(b, grid) == WithId(b, "GRid", grid)

ReleaseAddProprietaryId(b, namespace, value) ==
    /\ b \in BuildersOf("Release")
    /\ ProprietaryIds(View("Release", b).ReleaseId) < MaxValues
    /\ \E newcap \in IdCaps(b) :
          Touch(AddProprietaryIdOf(Tree, b, namespace, value, newcap))

\* ------------------------------------------------- video editions (4.3)

PLines == {[Year |-> 2023, PLineText |-> "(P) 2023 Label"],
           [Year |-> 2024, PLineText |-> "(P) 2024 Label"]}
TechRefs == {"T1", "T2"}
FileURIs == {"video.mp4"}

\* VideoEdition{}
NewVideoEdition == [PLine |-> <<>>, TechnicalDetails |-> <<>>, ResourceId |-> <<>>]

\* VideoId{}
NewVideoId == [ISRC |-> "", ProprietaryId |-> <<>>]

\* []TechnicalVideoDetails{{...}}
NewTechnicalDetails(techRef, fileURI) ==
    <<[TechnicalResourceDetailsReference |-> techRef,
       DeliveryFile |-> <<[Type |-> "AudioVisualFile", File |-> [URI |-> fileURI]]>>]>>

\* The start of the four setters: edition 0 is there.
FirstEdition(t, b, newcap) ==
    EnsureFirst(t, "Video", b, "VideoEdition", NewVideoEdition, newcap)

\* VideoBuilder.WithPLine and WithTechnicalDetails: the field of edition 0 is
\* replaced by a list of one.
ReplaceInEdition(t, b, field, v, newcap) ==
    WriteFirst(FirstEdition(t, b, newcap), "Video", b, "VideoEdition", field, v)

\* VideoBuilder.WithISRC and AddProprietaryId: one more resource id in
\* edition 0.
AppendResourceId(t, b, id, newcap) ==
    LET u == FirstEdition(t, b, newcap)
    IN  WriteFirst(u, "Video", b, "VideoEdition", "ResourceId",
                   Append(ReadFirst(u, "Video", b, "VideoEdition", "ResourceId"), id))

\* What each of the four setters does to the tree.
EditionSetterOf(t, b, setter, v, newcap) ==
    CASE setter = "WithPLine" -> ReplaceInEdition(t, b, "PLine", <<v>>, newcap)
      [] setter = "WithTechnicalDetails" ->
           ReplaceInEdition(t, b, "TechnicalDetails",
                            NewTechnicalDetails(v[1], v[2]), newcap)
      [] setter = "WithISRC" ->
           AppendResourceId(t, b, [NewVideoId EXCEPT !.ISRC = v], newcap)
      [] setter = "AddProprietaryId" ->
           AppendResourceId(t, b,
               [NewVideoId EXCEPT !.ProprietaryId = <<NewProprietaryId(v[1], v[2])>>],
               newcap)

\* The resource ids the editions of a list hold.
RECURSIVE ResourceIds(_)
ResourceIds(eds) ==
    IF eds = <<>> THEN 0 ELSE Len(Head(eds).ResourceId) + ResourceIds(Tail(eds))

EditionSetter(b, setter, v) ==
    /\ b \in BuildersOf("Video")
    /\ setter \in {"WithISRC", "AddProprietaryId"} =>
          ResourceIds(View("Video", b).VideoEdition) < MaxValues
    /\ \E newcap \in GrowCaps(TargetCell(Tree, "Video", b).VideoEdition) :
          Touch(EditionSetterOf(Tree, b, setter, v, newcap))

VideoWithPLine(b, pline) == EditionSetter(b, "WithPLine", pline)
VideoWithTechnicalDetails(b, techRef, fileURI) ==
    EditionSetter(b, "WithTechnicalDetails", <<techRef, fileURI>>)
VideoWithISRC(b, isrc) == EditionSetter(b, "WithISRC", isrc)
VideoAddProprietaryId(b, namespace, value) ==
    EditionSetter(b, "AddProprietaryId", <<namespace, value>>)

\* ---------------------------------------------------------------- deals

\* ReleaseDealBuilder.AddDeal: the deals of the wrapper under construction
\* are the list "Deal"; a deal's DealTerms pointer is its nested slice, nil
\* or one DealTerms record, which copies of the deal share.
AddDeal == AddAction("Deal", "")

\* &DealTerms{}
NewDealTerms ==
    [TerritoryCode |-> <<>>, ValidityPeriod |-> <<>>, CommercialModelType |-> <<>>,
     Usage |-> <<>>, RightsClaimPolicy |-> <<>>]

\* ValidityPeriod{}
NewValidityPeriod == [StartDate |-> "", EndDate |-> "", StartDateTime |-> ""]

\* db.deal.DealTerms: <<>> (nil) or <<the record>>.
TermsOf(t, b) == Cells(TargetCell(t, "Deal", b).secs, t.sec["Deal"])
Terms(b) == TermsOf(Tree, b)

\* As InitDealTerms, but a fresh record is allocated on every call.
InitDealTermsMutAlways(t, b) ==
    LET p == t.bld["Deal"][b].ent
    IN  [t EXCEPT !.sec["Deal"] = Append(@, <<NewDealTerms>>),
                  !.ent["Deal"][p.arr][p.idx].secs =
                      [arr |-> Len(t.sec["Deal"]) + 1, len |-> 1, cap |-> 1]]

\* if db.deal.DealTerms == nil { db.deal.DealTerms = &DealTerms{} }
InitDealTerms(t, b) ==
    LET p == t.bld["Deal"][b].ent
    IN  IF TargetCell(t, "Deal", b).secs.len = 0
        THEN [t EXCEPT !.sec["Deal"] = Append(@, <<NewDealTerms>>),
                       !.ent["Deal"][p.arr][p.idx].secs =
                           [arr |-> Len(t.sec["Deal"]) + 1, len |-> 1, cap |-> 1]]
        ELSE t

\* As FirstPeriod, but a fresh period is put in front every time.
FirstPeriodMutPrepend(ps) == <<NewValidityPeriod>> \o ps

\* The validity periods with at least one period in them.
FirstPeriod(ps) == IF Len(ps) = 0 THEN <<NewValidityPeriod>> ELSE ps

\* What each setter does to the deal terms it finds.
SetTerms(terms, setter, v) ==
    CASE setter = "WithTerritories" ->
           [terms EXCEPT !.TerritoryCode = @ \o v]
      [] setter = "WithValidityPeriodStartDate" ->
           [terms EXCEPT !.ValidityPeriod = [FirstPeriod(@) EXCEPT ![1].StartDate = v]]
      [] setter = "WithValidityPeriodEndDate" ->
           [terms EXCEPT !.ValidityPeriod = [FirstPeriod(@) EXCEPT ![1].EndDate = v]]
      [] setter = "WithValidityPeriodDateTime" ->
           [terms EXCEPT !.ValidityPeriod =
                Append(@, [NewValidityPeriod EXCEPT !.StartDateTime = v])]
      [] setter = "WithCommercialModel" ->
           [terms EXCEPT !.CommercialModelType = Append(@, v)]
      [] setter = "WithUseType" ->
           [terms EXCEPT !.Usage =
                IF Len(@) = 0 THEN <<[UseType |-> <<v>>]>>
                ELSE [@ EXCEPT ![1].UseType = Append(@, v)]]
      [] setter = "WithRightsClaimPolicy" ->
           [terms EXCEPT !.RightsClaimPolicy = Append(@, [RightsClaimPolicyType |-> v])]

\* A DealBuilder setter on tree t: the deal terms are there, then written.
DealSetterOf(t, b, setter, v) ==
    LET u == InitDealTerms(t, b)
        h == TargetCell(u, "Deal", b).secs
    IN  [u EXCEPT !.sec["Deal"][h.arr][1] = SetTerms(@, setter, v)]

\* The number of values a deal terms record holds.
TermValues(terms) ==
    Len(terms.TerritoryCode) + Len(terms.ValidityPeriod) + Len(terms.CommercialModelType)
    + (IF terms.Usage = <<>> THEN 0 ELSE Len(terms.Usage[1].UseType))
    + Len(terms.RightsClaimPolicy)

RECURSIVE HeapValues(_)
HeapValues(H) == IF H = <<>> THEN 0 ELSE TermValues(Head(H)[1]) + HeapValues(Tail(H))

DealSetter(b, setter, v) ==
    /\ b \in BuildersOf("Deal")
    /\ HeapValues(secArr["Deal"]) < MaxValues
    /\ Touch(DealSetterOf(Tree, b, setter, v))

DealWithTerritories(b, territoryCodes) == DealSetter(b, "WithTerritories", territoryCodes)
DealWithValidityPeriodStartDate(b, startDate) ==
    DealSetter(b, "WithValidityPeriodStartDate", startDate)
DealWithValidityPeriodEndDate(b, endDate) ==
    DealSetter(b, "WithValidityPeriodEndDate", endDate)
DealWithValidityPeriodDateTime(b, startDateTime) ==
    DealSetter(b, "WithValidityPeriodDateTime", startDateTime)
DealWithCommercialModel(b, modelType) == DealSetter(b, "WithCommercialModel", modelType)
DealWithUseType(b, useType) == DealSetter(b, "WithUseType", useType)
DealWithRightsClaimPolicy(b, policyType) ==
    DealSetter(b, "WithRightsClaimPolicy", policyType)

\* ----------------------------------------------------------------- Done

\* As DoneOf, but the sub-builder forgets its current territory section.
DoneOfMutDropFocus(t, k, b) ==
    [tree |-> [t EXCEPT !.bld[k][b].cur = <<>>], ret |-> t.bld[k][b].parent]

\* <Kind>Builder.Done: return vb.builder (rgb.releaseBuilder,
\* db.releaseDealBuilder).
DoneOf(t, k, b) == [tree |-> t, ret |-> t.bld[k][b].parent]

Done(k, b) ==
    /\ b \in BuildersOf(k)
    /\ SetTree(DoneOf(Tree, k, b).tree)
    /\ nav' = <<DoneOf(Tree, k, b).ret>>
    /\ UNCHANGED <<headerVars, verdict, root, io, dur, util>>

\* ------------------------------------------------------------- Validate

\* Build(): the message as Validate reads it.
Message ==
    [MessageHeader |-> header,
     ReleaseList |-> <<[Release |-> Live("Release")]>>,
     DealList |-> <<[ReleaseDeal |-> Live("ReleaseDeal")]>>]

NoError == <<>>

\* As FirstMissing, with the two lists in each other's place: the first deal
\* wrapper without a release.
FirstMissingMutDealsHaveReleases(releases, deals) ==
    LET refs == {releases[i].ref : i \in 1..Len(releases)}
        miss == {i \in 1..Len(deals) : deals[i].ref \notin refs}
    IN  IF miss = {} THEN NoError
        ELSE <<"no deal found for release reference: %s",
               deals[CHOOSE i \in miss : \A j \in miss : i <= j].ref>>

\* The two loops at the end of Validate: the error for the first release whose
\* reference no deal wrapper carries.
FirstMissing(releases, deals) ==
    LET dealReleaseRefs == {deals[i].ref : i \in 1..Len(deals)}
        miss == {i \in 1..Len(releases) : releases[i].ref \notin dealReleaseRefs}
    IN  IF miss = {} THEN NoError
        ELSE <<"no deal found for release reference: %s",
               releases[CHOOSE i \in miss : \A j \in miss : i <= j].ref>>

\* As NoDeals, but the deals inside the wrappers are what is counted.
NoDealsMutCountsDeals(nrm) ==
    \/ nrm.DealList = <<>>
    \/ \A i \in 1..Len(nrm.DealList[1].ReleaseDeal) :
          nrm.DealList[1].ReleaseDeal[i].Deal = 0

\* As NoDeals, but an empty deal list is let through.
NoDealsMutSkipped(nrm) == FALSE

\* The deal-list presence check of Validate.
NoDeals(nrm) == nrm.DealList = <<>> \/ Len(nrm.DealList[1].ReleaseDeal) = 0

\* NewReleaseMessage.Validate: the error it returns, NoError for nil.
Validate(nrm) ==
    IF nrm.MessageHeader = <<>> THEN <<"MessageHeader is required">>
    ELSE IF nrm.MessageHeader[1].MessageId = ""
         THEN <<"MessageHeader.MessageId is required">>
    ELSE IF nrm.MessageHeader[1].MessageThreadId = ""
         THEN <<"MessageHeader.MessageThreadId is required">>
    ELSE IF nrm.MessageHeader[1].MessageSender = <<>>
         THEN <<"MessageHeader.MessageSender is required">>
    ELSE IF nrm.MessageHeader[1].MessageRecipient.nil
         THEN <<"MessageHeader.MessageRecipient is required">>
    ELSE IF nrm.ReleaseList = <<>> \/ Len(nrm.ReleaseList[1].Release) = 0
         THEN <<"at least one Release is required">>
    ELSE IF NoDeals(nrm)
         THEN <<"at least one Deal is required">>
    ELSE FirstMissing(nrm.ReleaseList[1].Release, nrm.DealList[1].ReleaseDeal)

\* A call of Build().Validate(): the message is left as it is.
CallValidate ==
    /\ verdict' = <<Validate(Message)>>
    /\ UNCHANGED <<headerVars, treeVars, restVars>>

\* ---------------------------------------------------- ToXML, WriteToFile

\* xml.Header
XmlHeader == "<?xml version=\"1.0\" encoding=\"UTF-8\"?>\n"

Paths == {"release.xml"}
\* What xml.MarshalIndent and os.WriteFile can return as their error.
MarshalErrors == {NoError, <<"xml: unsupported type">>}
WriteErrors == {NoError, <<"permission denied">>}

\* xml.MarshalIndent(b.Message, "", "    "): the document of the message as
\* it is now, one element per part of the tree.
MarshalIndent ==
    <<[NewReleaseMessage |-> root, MessageHeader |-> header,
       Video |-> Live("Video"), Image |-> Live("Image"),
       Release |-> Live("Release"), ResourceGroup |-> Live("ResourceGroup"),
       ReleaseDeal |-> Live("ReleaseDeal")]>>

\* Builder.ToXML: the bytes and the error of the marshaller, as they are.
ToXMLOf(old, xmlData, merr) ==
    [op |-> "ToXML", out |-> IF merr = NoError THEN xmlData ELSE <<>>,
     err |-> merr, written |-> <<>>, file |-> old.file]

ToXML ==
    /\ \E merr \in MarshalErrors : io' = ToXMLOf(io, MarshalIndent, merr)
    /\ UNCHANGED <<headerVars, treeVars, verdict, root, dur, nav, util>>

\* As WriteToFileOf, but the file is opened for writing before the marshal
\* error is looked at.
WriteToFileOfMutWriteFirst(old, xmlData, merr, werr, left) ==
    LET xmlWithDeclaration == <<XmlHeader>> \o xmlData
    IN  IF merr # NoError
        THEN [op |-> "WriteToFile", out |-> <<>>,
              err |-> <<"failed to marshal XML: %w">> \o merr,
              written |-> <<<<XmlHeader>>>>, file |-> <<XmlHeader>>]
        ELSE IF werr # NoError
        THEN [op |-> "WriteToFile", out |-> <<>>,
              err |-> <<"failed to write file: %w">> \o werr,
              written |-> <<xmlWithDeclaration>>, file |-> left]
        ELSE [op |-> "WriteToFile", out |-> <<>>, err |-> NoError,
              written |-> <<xmlWithDeclaration>>, file |-> xmlWithDeclaration]

\* Builder.WriteToFile: marshal, prepend the declaration, one os.WriteFile.
\* `left` is what a failed write leaves at the path.
WriteToFileOf(old, xmlData, merr, werr, left) ==
    LET xmlWithDeclaration == <<XmlHeader>> \o xmlData
    IN  IF merr # NoError
        THEN [op |-> "WriteToFile", out |-> <<>>,
              err |-> <<"failed to marshal XML: %w">> \o merr,
              written |-> <<>>, file |-> old.file]
        ELSE IF werr # NoError
        THEN [op |-> "WriteToFile", out |-> <<>>,
              err |-> <<"failed to write file: %w">> \o werr,
              written |-> <<xmlWithDeclaration>>, file |-> left]
        ELSE [op |-> "WriteToFile", out |-> <<>>, err |-> NoError,
              written |-> <<xmlWithDeclaration>>, file |-> xmlWithDeclaration]

WriteToFile(filename) ==
    /\ \E merr \in MarshalErrors, werr \in WriteErrors, left \in {io.file, <<>>} :
          io' = WriteToFileOf(io, MarshalIndent, merr, werr, left)
    /\ UNCHANGED <<headerVars, treeVars, verdict, root, dur, nav, util>>

\* ------------------------------------------- FormatDuration, ParseDuration

\* A string is the sequence of its characters.
DigitChars == <<"0", "1", "2", "3", "4", "5", "6", "7", "8", "9">>

\* fmt.Sprintf("%d", n) for n >= 0
RECURSIVE Sprintf(_)
Sprintf(n) ==
    IF n < 10 THEN <<DigitChars[n + 1]>>
    ELSE Sprintf(n \div 10) \o <<DigitChars[(n % 10) + 1]>>

\* fmt.Sscanf(text, "%d", &n) into n = acc: the decimal digits text starts
\* with; n keeps its value when there is none.
RECURSIVE Sscanf(_, _)
Sscanf(text, acc) ==
    IF text = <<>> \/ \A d \in 1..10 : DigitChars[d] # Head(text) THEN acc
    ELSE Sscanf(Tail(text),
                acc * 10 + (CHOOSE d \in 0..9 : DigitChars[d + 1] = Head(text)))

\* strings.Index(d, c) + 1: the first place of character c in d, 0 for none.
Index(d, c) ==
    IF \E i \in 1..Len(d) : d[i] = c
    THEN CHOOSE i \in 1..Len(d) : d[i] = c /\ \A j \in 1..(i - 1) : d[j] # c
    ELSE 0

\* As FormatDuration, but the minutes are not reduced by the hours.
FormatDurationMutMinutes(seconds) ==
    IF seconds <= 0 THEN <<"P", "T", "0", "S">>
    ELSE LET hours == seconds \div 3600
             minutes == seconds \div 60
             secs == seconds % 60
         IN  <<"P", "T">>
             \o (IF hours > 0 THEN Sprintf(hours) \o <<"H">> ELSE <<>>)
             \o (IF minutes > 0 THEN Sprintf(minutes) \o <<"M">> ELSE <<>>)
             \o (IF secs > 0 \/ (hours = 0 /\ minutes = 0)
                 THEN Sprintf(secs) \o <<"S">> ELSE <<>>)

FormatDuration(seconds) ==
    IF seconds <= 0 THEN <<"P", "T", "0", "S">>
    ELSE LET hours == seconds \div 3600
             minutes == (seconds % 3600) \div 60
             secs == seconds % 60
         IN  <<"P", "T">>
             \o (IF hours > 0 THEN Sprintf(hours) \o <<"H">> ELSE <<>>)
             \o (IF minutes > 0 THEN Sprintf(minutes) \o <<"M">> ELSE <<>>)
             \o (IF secs > 0 \/ (hours = 0 /\ minutes = 0)
                 THEN Sprintf(secs) \o <<"S">> ELSE <<>>)

\* d[idx+1:] when the unit character c is in d, d otherwise.
After(d, c) == IF Index(d, c) # 0 THEN SubSeq(d, Index(d, c) + 1, Len(d)) ELSE d
\* The number in front of the unit character c of d, 0 when c is not in d.
Before(d, c) == IF Index(d, c) # 0 THEN Sscanf(SubSeq(d, 1, Index(d, c) - 1), 0) ELSE 0

\* ParseDuration: the seconds and the error it returns.
ParseDuration(duration) ==
    IF Len(duration) < 2 \/ SubSeq(duration, 1, 2) # <<"P", "T">>
    THEN [value |-> 0, err |-> <<"invalid duration format: %s", duration>>]
    ELSE LET d == SubSeq(duration, 3, Len(duration))
             m == After(d, "H")
             sec == After(m, "M")
         IN  [value |-> Before(d, "H") * 3600 + Before(m, "M") * 60 + Before(sec, "S"),
              err |-> NoError]

\* A call of FormatDuration on the seconds chosen, and of ParseDuration on
\* the text that gave.
CallFormatDuration ==
    /\ dur.text = <<>>
    /\ dur' = [dur EXCEPT !.text = <<FormatDuration(dur.seconds)>>]
    /\ UNCHANGED <<headerVars, treeVars, verdict, calls, root, io, nav, util>>

CallParseDuration ==
    /\ dur.text # <<>>
    /\ dur.parsed = <<>>
    /\ dur' = [dur EXCEPT !.parsed = <<ParseDuration(dur.text[1])>>]
    /\ UNCHANGED <<headerVars, treeVars, verdict, calls, root, io, nav, util>>

\* ------------------------------------------------------------ validators

\* The characters the inputs are written in: the digits, some upper case
\* letters, a lower case letter, and a character that is neither.
UpperChars == {"A", "D", "I", "P"}
OtherChars == {"a", "-"}
IsDigit(c) == \E d \in 1..10 : DigitChars[d] = c
DigitOf(c) == CHOOSE d \in 0..9 : DigitChars[d + 1] = c

\* sum over upc[:n] of digit * 3 where i%2 == 0 (i counted from 0) and of
\* digit elsewhere, when even = 3, odd = 1; the other way round for EAN.
RECURSIVE WeightedSum(_, _, _, _)
WeightedSum(s, n, even, odd) ==
    IF n = 0 THEN 0
    ELSE WeightedSum(s, n - 1, even, odd)
         + DigitOf(s[n]) * (IF (n - 1) % 2 = 0 THEN even ELSE odd)

\* As ValidateUPC, with the weights of the EAN loop.
ValidateUPCMutWeights(upc) ==
    IF Len(upc) # 12 THEN FALSE
    ELSE IF \E i \in 1..12 : ~IsDigit(upc[i]) THEN FALSE
    ELSE (10 - (WeightedSum(upc, 11, 1, 3) % 10)) % 10 = DigitOf(upc[12])

ValidateUPC(upc) ==
    IF Len(upc) # 12 THEN FALSE
    ELSE IF \E i \in 1..12 : ~IsDigit(upc[i]) THEN FALSE
    ELSE (10 - (WeightedSum(upc, 11, 3, 1) % 10)) % 10 = DigitOf(upc[12])

ValidateEAN(ean) ==
    IF Len(ean) # 13 THEN FALSE
    ELSE IF \E i \in 1..13 : ~IsDigit(ean[i]) THEN FALSE
    ELSE (10 - (WeightedSum(ean, 12, 1, 3) % 10)) % 10 = DigitOf(ean[13])

\* ValidateDPID: the length, then the pattern ^[A-Z0-9]+$.
ValidateDPID(dpid) ==
    IF Len(dpid) < 10 \/ Len(dpid) > 20 THEN FALSE
    ELSE \A i \in 1..Len(dpid) : dpid[i] \in UpperChars \/ IsDigit(dpid[i])

\* A call of a validator on the input chosen.
CallUtil(fn, result) ==
    /\ util # <<>>
    /\ util.fn = fn
    /\ util.out = <<>>
    /\ util' = [util EXCEPT !.out = <<result>>]
    /\ UNCHANGED <<headerVars, treeVars, verdict, calls, root, io, dur, nav>>

CallValidateUPC == CallUtil("ValidateUPC", ValidateUPC(util.arg))
CallValidateEAN == CallUtil("ValidateEAN", ValidateEAN(util.arg))
CallValidateDPID == CallUtil("ValidateDPID", ValidateDPID(util.arg))

\* ------------------------------------------------------- specifications

\* As NewRoot, but the language code is left empty.
NewRootMutNoLanguage ==
    [XmlnsErn |-> XmlnsErn, XmlnsXsi |-> XmlnsXsi,
     XsiSchemaLocation |-> XsiSchemaLocation,
     MessageSchemaVersionId |-> MessageSchemaVersionId,
     ReleaseProfileVersionId |-> "Video", LanguageAndScriptCode |-> "",
     ResourceList |-> TRUE, ReleaseList |-> TRUE, DealList |-> TRUE]

\* The root message NewDDEXBuilder() returns.
NewRoot ==
    [XmlnsErn |-> XmlnsErn, XmlnsXsi |-> XmlnsXsi,
     XsiSchemaLocation |-> XsiSchemaLocation,
     MessageSchemaVersionId |-> MessageSchemaVersionId,
     ReleaseProfileVersionId |-> "Video", LanguageAndScriptCode |-> "en",
     ResourceList |-> TRUE, ReleaseList |-> TRUE, DealList |-> TRUE]

\* No file written, no call of ToXML or WriteToFile made, no duration handled.
RestInit ==
    /\ root = NewRoot
    /\ io = [op |-> "", out |-> <<>>, err |-> <<>>, written |-> <<>>, file |-> <<>>]
    /\ dur = <<>>
    /\ nav = <<>>
    /\ util = <<>>

\* NewDDEXBuilder()
Init ==
    /\ header = <<>>
    /\ clock = 0
    /\ lists = EmptyTree.lists
    /\ entArr = EmptyTree.ent
    /\ secArr = EmptyTree.sec
    /\ builders = EmptyTree.bld
    /\ verdict = <<>>
    /\ calls = 0
    /\ RestInit

\* A step that counts as a sub-builder call, and one that does not.
Counted == calls < MaxCalls /\ calls' = calls + 1
Uncounted == calls' = calls

\* The header operations.
NextHeader ==
    \/ Uncounted /\ (\E m \in MessageIds, th \in ThreadIds, sid \in SenderIds, sn \in SenderNames :
            WithMessageHeader(m, th, sid, sn))
    \/ Uncounted /\ (\E id \in RecipientIds, n \in RecipientNames : AddRecipient(id, n))
    \/ Uncounted /\ (AddYouTubeRecipient)
    \/ Uncounted /\ (AddYouTubeContentIDRecipient)

SpecHeader == Init /\ [][NextHeader]_vars

\* The MessageHeader values a caller can hand to Validate without the builder:
\* any ids, a sender or none, and a recipient slice that is nil or empty.
LiteralHeaders ==
    {[MessageThreadId |-> th, MessageId |-> m, MessageSender |-> snd,
      MessageRecipient |-> rs, MessageCreatedDateTime |-> <<>>] :
        th \in ThreadIds, m \in MessageIds,
        snd \in {<<>>} \cup {<<Party(sid, "Label")>> : sid \in SenderIds},
        rs \in {NilRecipients, [nil |-> FALSE, elems |-> <<>>]}}

\* A message with no header or a header written as a literal, and empty lists.
InitValidate ==
    /\ header \in {<<>>} \cup {<<h>> : h \in LiteralHeaders}
    /\ clock = 0
    /\ lists = EmptyTree.lists
    /\ entArr = EmptyTree.ent
    /\ secArr = EmptyTree.sec
    /\ builders = EmptyTree.bld
    /\ verdict = <<>>
    /\ calls = 0
    /\ RestInit

\* Header, releases, release deals and Validate.
NextValidate ==
    \/ Uncounted /\ (\E m \in MessageIds, th \in ThreadIds, sid \in SenderIds :
            WithMessageHeader(m, th, sid, "Label"))
    \/ Uncounted /\ (AddYouTubeRecipient)
    \/ Uncounted /\ (\E ref \in ReleaseRefs : lists["Release"].len < MaxChecked /\ AddRelease(ref))
    \/ Uncounted /\ (\E ref \in ReleaseRefs : lists["ReleaseDeal"].len < MaxChecked /\ AddReleaseDeal(ref))
    \/ Uncounted /\ (CallValidate)

SpecValidate == InitValidate /\ [][NextValidate]_vars

\* A message whose header is a literal with both ids set, and empty lists.
InitWrappers ==
    /\ header \in {<<h>> : h \in {l \in LiteralHeaders :
                                     l.MessageId # "" /\ l.MessageThreadId # ""}}
    /\ clock = 0
    /\ lists = EmptyTree.lists
    /\ entArr = EmptyTree.ent
    /\ secArr = EmptyTree.sec
    /\ builders = EmptyTree.bld
    /\ verdict = <<>>
    /\ calls = 0
    /\ RestInit

\* The releases and the release deal wrappers of the message.
Checked == lists["Release"].len + lists["ReleaseDeal"].len

\* Releases, release deal wrappers, the deals inside the wrappers and
\* Validate.
NextWrappers ==
    \/ Uncounted /\ (Checked < MaxChecked + 1 /\ AddRelease("R1"))
    \/ Uncounted /\ (\E ref \in ReleaseRefs : Checked < MaxChecked + 1 /\ AddReleaseDeal(ref))
    \/ Counted /\ (\E b \in BuildersOf("ReleaseDeal") : ReleaseDealAddDeal(b))
    \/ Counted /\ (CallValidate)

SpecWrappers == InitWrappers /\ [][NextWrappers]_vars

\* The four entity lists and every sub-builder handed out, used in any order.
NextLists ==
    \/ Uncounted /\ (\E ref \in ResourceRefs : TotalEntities < MaxEntities /\ AddVideo(ref))
    \/ Uncounted /\ (\E ref \in ResourceRefs : TotalEntities < MaxEntities /\ AddImage(ref))
    \/ Uncounted /\ (\E ref \in {"R1"} : TotalEntities < MaxEntities /\ AddRelease(ref))
    \/ Uncounted /\ (\E ref \in {"R1"} : TotalEntities < MaxEntities /\ AddReleaseDeal(ref))
    \/ Counted /\ (\E b \in BuildersOf("Video"), d \in Durations : VideoWithDuration(b, d))
    \/ Counted /\ (\E b \in BuildersOf("Video") : VideoWithTerritory(b, <<"US">>))
    \/ Counted /\ (\E b \in BuildersOf("Video") : VideoWithTitle(b, "X"))
    \/ Counted /\ (\E b \in BuildersOf("Image"), w \in Warnings : ImageWithParentalWarning(b, w))
    \/ Counted /\ (\E b \in BuildersOf("Image"), d \in Dates : ImageWithCreationDate(b, d))
    \/ Counted /\ (\E b \in BuildersOf("Release"), d \in Durations : ReleaseWithDuration(b, d))
    \/ Counted /\ (\E b \in BuildersOf("ReleaseDeal") : ReleaseDealAddDeal(b))

SpecLists == Init /\ [][NextLists]_vars

\* One video, image or release has just been added: its sub-builder's
\* territory methods.
InitTerritory ==
    /\ header = <<>>
    /\ clock = 0
    /\ verdict = <<>>
    /\ calls = 0
    /\ RestInit
    /\ \E k \in {"Video", "Image", "Release"} :
       \E ref \in RefsOf(k), newcap \in GrowCaps(NilSlice) :
          LET t == AddEntity(EmptyTree, k, ref, newcap)
          IN  /\ lists = t.lists
              /\ entArr = t.ent
              /\ secArr = t.sec
              /\ builders = t.bld

NextTerritory ==
    \/ Uncounted /\ (\E b \in BuildersOf("Video"), codes \in CodeLists : VideoWithTerritory(b, codes))
    \/ Uncounted /\ (\E b \in BuildersOf("Video"), x \in Titles : VideoWithTitle(b, x))
    \/ Uncounted /\ (\E b \in BuildersOf("Video"), w \in Warnings : VideoWithParentalWarning(b, w))
    \/ Uncounted /\ (\E b \in BuildersOf("Image"), codes \in CodeLists : ImageWithTerritory(b, codes))
    \/ Uncounted /\ (\E b \in BuildersOf("Image"), w \in Warnings : ImageWithParentalWarning(b, w))
    \/ Uncounted /\ (\E b \in BuildersOf("Release"), codes \in CodeLists : ReleaseWithTerritory(b, codes))
    \/ Uncounted /\ (\E b \in BuildersOf("Release"), w \in Warnings : ReleaseWithParentalWarning(b, w))

SpecTerritory == InitTerritory /\ [][NextTerritory]_vars

\* One video or image sub-builder switching between territory sections and
\* setting values in them.
FocusCodeLists == {<<"Worldwide">>, <<"US">>, <<"CA">>}

NextFocus ==
    \/ Uncounted /\ (\E b \in BuildersOf("Video"), codes \in FocusCodeLists : VideoWithTerritory(b, codes))
    \/ Uncounted /\ (\E b \in BuildersOf("Video") : VideoWithTitle(b, "X"))
    \/ Uncounted /\ (\E b \in BuildersOf("Image"), codes \in FocusCodeLists : ImageWithTerritory(b, codes))
    \/ Uncounted /\ (\E b \in BuildersOf("Image"), w \in Warnings : ImageWithParentalWarning(b, w))

SpecFocus == InitTerritory /\ [][NextFocus]_vars

\* The resource groups of one release and their content items.
NextGroups ==
    \/ Uncounted /\ (\E title \in GroupTitles : AddResourceGroup(title))
    \/ Uncounted /\ (\E b \in BuildersOf("ResourceGroup"), ref \in ItemRefs : AddContentItem(b, ref))
    \/ Uncounted /\ (\E b \in BuildersOf("ResourceGroup"), ref \in LinkRefs : AddLinkedResource(b, ref))

SpecGroups == Init /\ [][NextGroups]_vars

\* A release deal wrapper, a resource group with its content items and their
\* links, the resources they may name, and the two ways of serializing.
NextWrite ==
    \/ Counted /\ (\E ref \in ResourceRefs : AddVideo(ref))
    \/ Counted /\ (\E ref \in {"R1"} : AddRelease(ref))
    \/ Counted /\ (\E ref \in {"R1"} : AddReleaseDeal(ref))
    \/ Counted /\ (\E title \in GroupTitles : AddResourceGroup(title))
    \/ Counted /\ (\E b \in BuildersOf("ResourceGroup"), ref \in ItemRefs : AddContentItem(b, ref))
    \/ Counted /\ (\E b \in BuildersOf("ResourceGroup"), ref \in LinkRefs : AddLinkedResource(b, ref))
    \/ Uncounted /\ (ToXML)
    \/ Uncounted /\ (\E f \in Paths : WriteToFile(f))

SpecWrite == Init /\ [][NextWrite]_vars

\* The deals of one release deal wrapper and their terms.
NextDeals ==
    \/ Uncounted /\ (AddDeal)
    \/ Counted /\ (\E b \in BuildersOf("Deal"), c \in DealCodeLists : DealWithTerritories(b, c))
    \/ Counted /\ (\E b \in BuildersOf("Deal"), d \in StartDates :
            DealWithValidityPeriodStartDate(b, d))
    \/ Counted /\ (\E b \in BuildersOf("Deal"), d \in EndDates :
            DealWithValidityPeriodEndDate(b, d))
    \/ Counted /\ (\E b \in BuildersOf("Deal"), d \in StartDateTimes :
            DealWithValidityPeriodDateTime(b, d))
    \/ Counted /\ (\E b \in BuildersOf("Deal"), m \in CommercialModels :
            DealWithCommercialModel(b, m))
    \/ Counted /\ (\E b \in BuildersOf("Deal"), u \in UseTypes : DealWithUseType(b, u))
    \/ Counted /\ (\E b \in BuildersOf("Deal"), p \in PolicyTypes :
            DealWithRightsClaimPolicy(b, p))

SpecDeals == Init /\ [][NextDeals]_vars

\* Every entity of the message, with the resource groups and the deals.
AllEntities == TotalEntities + lists["ResourceGroup"].len + lists["Deal"].len

\* Every kind of entity and sub-builder together, Done included.
NextBuilder ==
    \/ Uncounted /\ (\E ref \in ResourceRefs : AllEntities < MaxEntities /\ AddVideo(ref))
    \/ Uncounted /\ (\E ref \in ResourceRefs : AllEntities < MaxEntities /\ AddImage(ref))
    \/ Uncounted /\ (\E ref \in ReleaseRefs : AllEntities < MaxEntities /\ AddRelease(ref))
    \/ Uncounted /\ (\E ref \in {"R1"} : AllEntities < MaxEntities /\ AddReleaseDeal(ref))
    \/ Uncounted /\ (\E title \in GroupTitles : AllEntities < MaxEntities /\ AddResourceGroup(title))
    \/ Uncounted /\ (AllEntities < MaxEntities /\ AddDeal)
    \/ Counted /\ (\E b \in BuildersOf("Video") : VideoWithTerritory(b, <<"US">>))
    \/ Counted /\ (\E b \in BuildersOf("Image"), w \in Warnings : ImageWithParentalWarning(b, w))
    \/ Counted /\ (\E b \in BuildersOf("Release") : ReleaseWithTerritory(b, <<"US">>))
    \/ Counted /\ (\E b \in BuildersOf("ReleaseDeal") : ReleaseDealAddDeal(b))
    \/ Counted /\ (\E b \in BuildersOf("ResourceGroup"), ref \in ItemRefs : AddContentItem(b, ref))
    \/ Counted /\ (\E b \in BuildersOf("ResourceGroup"), ref \in LinkRefs : AddLinkedResource(b, ref))
    \/ Counted /\ (\E b \in BuildersOf("Deal"), u \in UseTypes : DealWithUseType(b, u))
    \/ Counted /\ (\E k \in Kinds : \E b \in BuildersOf(k) : Done(k, b))

SpecBuilder == Init /\ [][NextBuilder]_vars

\* A number of seconds to format and to parse back.
InitDuration ==
    /\ header = <<>>
    /\ clock = 0
    /\ lists = EmptyTree.lists
    /\ entArr = EmptyTree.ent
    /\ secArr = EmptyTree.sec
    /\ builders = EmptyTree.bld
    /\ verdict = <<>>
    /\ calls = 0
    /\ root = NewRoot
    /\ io = [op |-> "", out |-> <<>>, err |-> <<>>, written |-> <<>>, file |-> <<>>]
    /\ nav = <<>>
    /\ util = <<>>
    /\ dur \in {[seconds |-> s, text |-> <<>>, parsed |-> <<>>] : s \in 0..MaxSeconds}

NextDuration ==
    \/ CallFormatDuration
    \/ CallParseDuration

SpecDuration == InitDuration /\ [][NextDuration]_vars

\* ------------------------------------------------------ DateTime codec

\* A time.Time: whole seconds since the zero time, and nanoseconds within
\* the second.
ZeroTime == [sec |-> 0, nsec |-> 0]
Timestamps == {[sec |-> s, nsec |-> n] : s \in Times, n \in {0, 500000000}}

\* dt.Time.Format(time.RFC3339): the date and time to the second.
FormatRFC3339(t) == Sprintf(t.sec) \o <<"Z">>

\* time.Parse(time.RFC3339, s): the time and the error.
ParseRFC3339(text) ==
    IF Len(text) >= 2 /\ text[Len(text)] = "Z"
       /\ \A i \in 1..(Len(text) - 1) : IsDigit(text[i])
    THEN [time |-> [sec |-> Sscanf(text, 0), nsec |-> 0], err |-> NoError]
    ELSE [time |-> ZeroTime, err |-> <<"parsing time">>]

\* DateTime.MarshalXML: the elements written, none for the zero time.
MarshalXML(dt) == IF dt = ZeroTime THEN <<>> ELSE <<FormatRFC3339(dt)>>

\* Decoding the field from the elements of the document: UnmarshalXML is
\* called for an element that is there; without one the field keeps its zero
\* value.
UnmarshalXML(elements) ==
    IF elements = <<>> THEN [time |-> ZeroTime, err |-> NoError]
    ELSE ParseRFC3339(elements[1])

CallMarshalXML ==
    /\ util # <<>>
    /\ util.fn = "DateTime"
    /\ util.out = <<>>
    /\ util' = [util EXCEPT !.out = <<[doc |-> MarshalXML(util.arg), decoded |-> <<>>]>>]
    /\ UNCHANGED <<headerVars, treeVars, verdict, calls, root, io, dur, nav>>

CallUnmarshalXML ==
    /\ util # <<>>
    /\ util.fn = "DateTime"
    /\ util.out # <<>>
    /\ util.out[1].decoded = <<>>
    /\ util' = [util EXCEPT !.out[1].decoded = <<UnmarshalXML(util.out[1].doc)>>]
    /\ UNCHANGED <<headerVars, treeVars, verdict, calls, root, io, dur, nav>>

\* Sequence s with the character at place i replaced by c.
Replace(s, i, c) == [s EXCEPT ![i] = c]

\* A valid UPC and a valid EAN, and a party id followed by three more
\* characters.
SampleUPC == <<"0", "3", "6", "0", "0", "0", "2", "9", "1", "4", "5", "2">>
SampleEAN == <<"4", "0", "0", "6", "3", "8", "1", "3", "3", "3", "9", "3", "1">>
SampleDPID ==
    <<"P", "A", "D", "P", "I", "D", "A", "2", "0", "1", "3", "0", "2", "0", "8", "0",
      "2", "I", "0", "0", "7">>

\* The sample, cut short by one character, whole, or one longer, with one
\* character and the last one replaced by any character.
Variants(sample) ==
    LET Chars == {DigitChars[d] : d \in 1..10} \cup {"A", "a", "-"}
        longer == Append(sample, "0")
    IN  {SubSeq(Replace(Replace(longer, i, c), Len(sample), e), 1, n) :
            i \in 1..Len(sample), c \in Chars, e \in Chars,
            n \in (Len(sample) - 1)..(Len(sample) + 1)}

\* The sample party id cut to any length, with one character replaced.
DPIDVariants ==
    {SubSeq(Replace(SampleDPID, i, c), 1, n) :
        i \in 1..Len(SampleDPID), c \in {"A", "7", "a", "-"}, n \in 0..Len(SampleDPID)}

\* An input for one of the validators.
InitUtil ==
    /\ header = <<>>
    /\ clock = 0
    /\ lists = EmptyTree.lists
    /\ entArr = EmptyTree.ent
    /\ secArr = EmptyTree.sec
    /\ builders = EmptyTree.bld
    /\ verdict = <<>>
    /\ calls = 0
    /\ root = NewRoot
    /\ io = [op |-> "", out |-> <<>>, err |-> <<>>, written |-> <<>>, file |-> <<>>]
    /\ nav = <<>>
    /\ dur = <<>>
    /\ util \in {[fn |-> "ValidateUPC", arg |-> a, out |-> <<>>] : a \in Variants(SampleUPC)}
               \cup {[fn |-> "ValidateEAN", arg |-> a, out |-> <<>>] : a \in Variants(SampleEAN)}
               \cup {[fn |-> "ValidateDPID", arg |-> a, out |-> <<>>] : a \in DPIDVariants}
               \cup {[fn |-> "DateTime", arg |-> t, out |-> <<>>] : t \in Timestamps}

NextUtil ==
    \/ CallValidateUPC
    \/ CallValidateEAN
    \/ CallValidateDPID
    \/ CallMarshalXML
    \/ CallUnmarshalXML

SpecUtil == InitUtil /\ [][NextUtil]_vars

\* The releases of a 4.3 message, their durations and their dates.
NextDates ==
    \/ Uncounted /\ (\E ref \in ReleaseRefs : AddRelease(ref))
    \/ Counted /\ (\E b \in BuildersOf("Release"), d \in Durations : ReleaseWithDuration(b, d))
    \/ Counted /\ (\E b \in BuildersOf("Release"), d \in ReleaseDates : WithReleaseDate(b, d))

SpecDates == Init /\ [][NextDates]_vars

\* One release, no header.
InitIds ==
    /\ header = <<>>
    /\ clock = 0
    /\ verdict = <<>>
    /\ calls = 0
    /\ RestInit
    /\ \E newcap \in GrowCaps(NilSlice) :
          LET t == AddEntity(EmptyTree, "Release", "R1", newcap)
          IN  /\ lists = t.lists
              /\ entArr = t.ent
              /\ secArr = t.sec
              /\ builders = t.bld

\* The identifiers of one release.
NextIds ==
    \/ Uncounted /\ (\E b \in BuildersOf("Release"), v \in Icpns : ReleaseWithICPN(b, v))
    \/ Uncounted /\ (\E b \in BuildersOf("Release"), v \in Isrcs : ReleaseWithISRC(b, v))
    \/ Uncounted /\ (\E b \in BuildersOf("Release"), v \in Grids : ReleaseWithGRid(b, v))
    \/ Uncounted /\ (\E b \in BuildersOf("Release"), n \in Namespaces, v \in ProprietaryValues :
            ReleaseAddProprietaryId(b, n, v))

SpecIds == InitIds /\ [][NextIds]_vars

\* One video, no header.
InitEditions ==
    /\ header = <<>>
    /\ clock = 0
    /\ verdict = <<>>
    /\ calls = 0
    /\ RestInit
    /\ \E newcap \in GrowCaps(NilSlice) :
          LET t == AddEntity(EmptyTree, "Video", "A1", newcap)
          IN  /\ lists = t.lists
              /\ entArr = t.ent
              /\ secArr = t.sec
              /\ builders = t.bld

\* The edition of one video.
NextEditions ==
    \/ Uncounted /\ (\E b \in BuildersOf("Video"), p \in PLines : VideoWithPLine(b, p))
    \/ Uncounted /\ (\E b \in BuildersOf("Video"), r \in TechRefs, f \in FileURIs :
            VideoWithTechnicalDetails(b, r, f))
    \/ Uncounted /\ (\E b \in BuildersOf("Video"), v \in Isrcs : VideoWithISRC(b, v))
    \/ Uncounted /\ (\E b \in BuildersOf("Video"), n \in Namespaces, v \in ProprietaryValues :
            VideoAddProprietaryId(b, n, v))

SpecEditions == InitEditions /\ [][NextEditions]_vars

\* ================================================================ claims

\* ------------------------------------------------------------- C1, C2

\* Some section of entity e has a first territory code c.
HasTerritory(e, c) ==
    \E i \in 1..Len(e.DetailsByTerritory) :
        /\ Len(e.DetailsByTerritory[i].TerritoryCode) > 0
        /\ e.DetailsByTerritory[i].TerritoryCode[1] = c

\* Some section of entity e ends its field with the value v.
EndsWith(e, field, v) ==
    \E i \in 1..Len(e.DetailsByTerritory) :
        /\ Len(e.DetailsByTerritory[i][field]) > 0
        /\ e.DetailsByTerritory[i][field][Len(e.DetailsByTerritory[i][field])] = v

\* The entity stored at index b of the list is the one sub-builder b works on.
Reaches(k, b) == Live(k)'[b] = View(k, b)'

\* What a call on sub-builder b of kind k leaves in the message: the entity
\* stored at index b of the list is the one the builder worked on, and it
\* shows the value the call set.
Stored(k, b) ==
    /\ k = "Video" =>
          /\ \A d \in Durations :
                VideoWithDuration(b, d) => Reaches(k, b) /\ Live(k)'[b].Duration = d
          /\ \A codes \in CodeLists \ {<<>>} :
                VideoWithTerritory(b, codes)
                   => Reaches(k, b) /\ HasTerritory(Live(k)'[b], codes[1])
          /\ \A x \in Titles :
                VideoWithTitle(b, x)
                   => /\ Reaches(k, b)
                      /\ ValuesIn(Live(k)'[b]) = ValuesIn(Live(k)[b]) + 1
                      /\ EndsWith(Live(k)'[b], "Title", x)
          /\ \A w \in Warnings :
                VideoWithParentalWarning(b, w)
                   => /\ Reaches(k, b)
                      /\ ValuesIn(Live(k)'[b]) = ValuesIn(Live(k)[b]) + 1
                      /\ EndsWith(Live(k)'[b], "ParentalWarningType", w)
    /\ k = "Image" =>
          /\ \A d \in Dates :
                ImageWithCreationDate(b, d) => Reaches(k, b) /\ Live(k)'[b].CreationDate = d
          /\ \A codes \in CodeLists \ {<<>>} :
                ImageWithTerritory(b, codes)
                   => Reaches(k, b) /\ HasTerritory(Live(k)'[b], codes[1])
          /\ \A w \in Warnings :
                ImageWithParentalWarning(b, w)
                   => /\ Reaches(k, b)
                      /\ ValuesIn(Live(k)'[b]) = ValuesIn(Live(k)[b]) + 1
                      /\ EndsWith(Live(k)'[b], "ParentalWarningType", w)
    /\ k = "Release" =>
          /\ \A d \in Durations :
                ReleaseWithDuration(b, d) => Reaches(k, b) /\ Live(k)'[b].Duration = d
          /\ \A codes \in CodeLists \ {<<>>} :
                ReleaseWithTerritory(b, codes)
                   => Reaches(k, b) /\ HasTerritory(Live(k)'[b], codes[1])
          /\ \A w \in Warnings :
                ReleaseWithParentalWarning(b, w)
                   => /\ Reaches(k, b)
                      /\ ValuesIn(Live(k)'[b]) = ValuesIn(Live(k)[b]) + 1
                      /\ EndsWith(Live(k)'[b], "ParentalWarningType", w)
    /\ (k = "ReleaseDeal" /\ ReleaseDealAddDeal(b))
          => Reaches(k, b) /\ Live(k)'[b].Deal = Live(k)[b].Deal + 1

\* Sub-builder b of kind k is the one of the entity added last to its list:
\* no entity has been added to that list since b was handed out.
Latest(k, b) == b = lists[k].len

\* C1: while a sub-builder is used in create-then-finish order (no entity has
\* been added to its list since it was handed out), every call on it changes
\* the entity stored in the message at the index where it was appended: the
\* value is there when the list is read through Build().
C1_StrictOrderMutatesStored ==
    [][\A k \in Kinds : \A b \in BuildersOf(k) :
          Latest(k, b) => Stored(k, b)]_vars

\* A second entity's sub-builder has set its duration and a title, and both
\* are in the message.
C1_Witness ==
    /\ lists["Video"].len >= 2
    /\ Live("Video")[2].Duration # ""
    /\ EndsWith(Live("Video")[2], "Title", "X")

\* C2: in every order of calls, also after further entities were appended to
\* the same list, every call on a sub-builder changes the entity stored in
\* the message.
C2_AnyOrderMutatesStored ==
    [][\A k \in Kinds : \A b \in BuildersOf(k) : Stored(k, b)]_vars

\* ------------------------------------------------------------- C3, C4

\* A header without its creation timestamp.
Untimed(h) == [h EXCEPT !.MessageCreatedDateTime = <<>>]

\* The header holds exactly the ids and the one sender given, and no recipients.
HoldsOnly(h, m, th, sid, sn) ==
    /\ h.MessageId = m
    /\ h.MessageThreadId = th
    /\ h.MessageSender = <<[PartyId |-> <<sid>>, PartyName |-> <<sn>>]>>
    /\ h.MessageRecipient.elems = <<>>

\* C3: WithMessageHeader overwrites the header: afterwards the header holds
\* exactly the given message id and thread id, one sender with the given party
\* id and name, and no recipients, whatever it held before; and called on a
\* header that a call with the same arguments produced, it leaves the header
\* as it was apart from the timestamp.
C3_WithMessageHeaderOverwrites ==
    [][\A m \in MessageIds, th \in ThreadIds, sid \in SenderIds, sn \in SenderNames :
          WithMessageHeader(m, th, sid, sn) =>
             /\ header' # <<>>
             /\ HoldsOnly(header'[1], m, th, sid, sn)
             /\ header'[1].MessageCreatedDateTime = <<clock'>>
             /\ (header # <<>> /\ HoldsOnly(header[1], m, th, sid, sn))
                   => Untimed(header'[1]) = Untimed(header[1])]_vars

\* A header set at the later time: it has ids and a sender and no recipients.
C3_Witness ==
    /\ header # <<>>
    /\ header[1].MessageCreatedDateTime = <<1>>
    /\ HoldsOnly(header[1], "M1", "T1", "PADPIDA0000000001S", "Other Label")

\* The step appends the recipient (id, name) to the header, creating an empty
\* header first when there is none, and changes nothing else of the header.
AppendsOne(id, name) ==
    /\ header' # <<>>
    /\ header'[1].MessageRecipient.elems =
          Append(IF header = <<>> THEN <<>> ELSE header[1].MessageRecipient.elems,
                 [PartyId |-> <<id>>, PartyName |-> <<name>>])
    /\ \A f \in {"MessageThreadId", "MessageId", "MessageSender", "MessageCreatedDateTime"} :
          header'[1][f] = IF header = <<>> THEN EmptyHeader[f] ELSE header[1][f]

\* C4: AddRecipient appends exactly one recipient with the given party id and
\* name after the recipients already there, creating an empty header first
\* if there is none and leaving the rest of an existing header alone;
\* AddYouTubeRecipient and AddYouTubeContentIDRecipient do the same with the
\* identities PADPIDA2013020802I / YouTube and PADPIDA2015120100H /
\* YouTube_ContentID.
C4_AddRecipientAppendsOne ==
    [][/\ \A id \in RecipientIds, n \in RecipientNames :
             AddRecipient(id, n) => AppendsOne(id, n)
       /\ AddYouTubeRecipient => AppendsOne("PADPIDA2013020802I", "YouTube")
       /\ AddYouTubeContentIDRecipient => AppendsOne("PADPIDA2015120100H", "YouTube_ContentID")
      ]_vars

\* A header with ids holds two recipients in the order they were added, the
\* YouTube Content ID identity last.
C4_Witness ==
    /\ header # <<>>
    /\ header[1].MessageId = "M1"
    /\ Len(header[1].MessageRecipient.elems) = 2
    /\ header[1].MessageRecipient.elems[1].PartyId = <<"PADPIDA2013020802I">>
    /\ header[1].MessageRecipient.elems[2] =
          [PartyId |-> <<"PADPIDA2015120100H">>, PartyName |-> <<"YouTube_ContentID">>]

\* --------------------------------------------------------- C5, C6, C7

\* The references of the releases and of the release-deal wrappers of the message.
ReleaseRefsOf(nrm) ==
    {nrm.ReleaseList[1].Release[i].ref : i \in 1..Len(nrm.ReleaseList[1].Release)}
DealRefsOf(nrm) ==
    {nrm.DealList[1].ReleaseDeal[i].ref : i \in 1..Len(nrm.DealList[1].ReleaseDeal)}

\* The header is there with both ids, a sender and at least one recipient.
CompleteHeader(nrm) ==
    /\ nrm.MessageHeader # <<>>
    /\ nrm.MessageHeader[1].MessageId # ""
    /\ nrm.MessageHeader[1].MessageThreadId # ""
    /\ nrm.MessageHeader[1].MessageSender # <<>>
    /\ Len(nrm.MessageHeader[1].MessageRecipient.elems) >= 1

\* C5: Validate returns nil exactly when the header is present, its message id
\* and thread id are non-empty, a sender is present, at least one recipient is
\* present, there is at least one release and at least one release-deal
\* wrapper, and every release's reference is the DealReleaseReference of some
\* wrapper; otherwise it returns an error.
C5_ValidateNilExactlyWhenComplete ==
    verdict # <<>> =>
        (verdict[1] = NoError <=>
            /\ CompleteHeader(Message)
            /\ ReleaseRefsOf(Message) # {}
            /\ DealRefsOf(Message) # {}
            /\ ReleaseRefsOf(Message) \subseteq DealRefsOf(Message))

\* The message of C6: a complete header, the one release R1, no deal wrapper,
\* and Validate has been called on it.
OneReleaseNoDeals ==
    /\ verdict # <<>>
    /\ CompleteHeader(Message)
    /\ Len(Live("Release")) = 1
    /\ Live("Release")[1].ref = "R1"
    /\ Len(Live("ReleaseDeal")) = 0

\* The error's message carries the release reference r.
Names(e, r) == Len(e) = 2 /\ e[2] = r

\* C6 as stated: with a complete header, exactly one release R1 and no deal
\* list entries, Validate returns an error whose message names R1.
C6_NoDealsErrorNamesR1 ==
    OneReleaseNoDeals => (verdict[1] # NoError /\ Names(verdict[1], "R1"))

\* C6, amended: with a complete header, exactly one release R1 and no deal
\* list entries, Validate returns the error "at least one Deal is required",
\* which names no release; the error names R1 when the deal list has entries
\* but none of them carries the reference R1.
C6_NoDealsErrorIsGeneric ==
    /\ OneReleaseNoDeals => verdict[1] = <<"at least one Deal is required">>
    /\ (/\ verdict # <<>>
        /\ CompleteHeader(Message)
        /\ Len(Live("Release")) = 1
        /\ Live("Release")[1].ref = "R1"
        /\ Len(Live("ReleaseDeal")) > 0
        /\ "R1" \notin DealRefsOf(Message))
          => (verdict[1] # NoError /\ Names(verdict[1], "R1"))

\* Validate has answered for a complete header, one release R1 and no deals.
C6_Witness == OneReleaseNoDeals /\ verdict[1] # NoError

DefaultOnly(e) ==
    \/ e.DetailsByTerritory = <<>>
    \/ /\ Len(e.DetailsByTerritory) = 1
       /\ e.DetailsByTerritory[1].TerritoryCode = <<"Worldwide">>

\* C8: on a video or image sub-builder on which WithTerritory was never
\* called, a territory-scoped setter leaves the entity with exactly one
\* territory section, whose code list is ["Worldwide"]: the first setter
\* creates it, every later one appends its value to that same section after
\* the values already there, and no section is added or replaced.
C8_DefaultWorldwideSection ==
    [][\A k \in {"Video", "Image"} : \A b \in BuildersOf(k) :
       \A field \in {"Title", "ParentalWarningType"} :
       \A v \in IF field = "Title" THEN Titles ELSE Warnings :
          (/\ k = "Video" \/ field = "ParentalWarningType"
           /\ DefaultOnly(View(k, b))
           /\ TerritorySetterAction(k, b, field, v))
          => LET old == View(k, b).DetailsByTerritory
                 new == View(k, b)'.DetailsByTerritory
                 was == IF old = <<>> THEN [Title |-> <<>>, ParentalWarningType |-> <<>>]
                        ELSE old[1]
             IN  /\ Len(new) = 1
                 /\ new[1].TerritoryCode = <<"Worldwide">>
                 /\ new[1][field] = Append(was[field], v)
                 /\ \A f \in {"Title", "ParentalWarningType"} \ {field} : new[1][f] = was[f]
                 /\ Live(k)'[b] = View(k, b)']_vars

\* A video holds two titles, in the order they were set, in one Worldwide section.
C8_Witness ==
    /\ Len(Live("Video")) = 1
    /\ Len(Live("Video")[1].DetailsByTerritory) = 1
    /\ Live("Video")[1].DetailsByTerritory[1].TerritoryCode = <<"Worldwide">>
    /\ Live("Video")[1].DetailsByTerritory[1].Title = <<"Y", "X">>

\* The index of the first section whose first territory code is the first of
\* the given codes; 0 when there is none or no code is given.
FirstWith(secs, codes) ==
    IF codes = <<>> \/ ~\E i \in 1..Len(secs) :
                           secs[i].TerritoryCode # <<>> /\ Head(secs[i].TerritoryCode) = Head(codes)
    THEN 0
    ELSE CHOOSE i \in 1..Len(secs) :
            /\ secs[i].TerritoryCode # <<>> /\ Head(secs[i].TerritoryCode) = Head(codes)
            /\ \A j \in 1..(i - 1) :
                  secs[j].TerritoryCode = <<>> \/ Head(secs[j].TerritoryCode) # Head(codes)

\* A step WithTerritory(codes) of sub-builder b of kind k is a lookup-or-create
\* keyed on the first code: a section whose first code is codes[0] becomes the
\* focus and nothing is appended; otherwise one section with the given codes
\* is appended at the end and becomes the focus; and the same call made again
\* at once changes nothing.
LookupOrCreates(k, b, codes) ==
    LET old == View(k, b).DetailsByTerritory
        new == View(k, b)'.DetailsByTerritory
        i   == FirstWith(old, codes)
        cur == builders'[k][b].cur
    IN  /\ cur # <<>>
        /\ i # 0 => new = old /\ cur[1].idx = i
        /\ i = 0 => new = Append(old, NewSection(codes)) /\ cur[1].idx = Len(new)
        /\ cur[1].arr = TargetCell(Tree, k, b)'.secs.arr
        /\ \A newcap \in SecCaps(k, b)' : WithTerritoryOf(Tree, k, b, codes, newcap)' = Tree'

\* C9: WithTerritory(codes) on a video or image sub-builder is an idempotent
\* lookup-or-create keyed on the first code, and repeating the same call
\* immediately changes nothing.
C9_WithTerritoryIdempotent ==
    [][\A k \in {"Video", "Image"} : \A b \in BuildersOf(k) : \A codes \in CodeLists :
          WithTerritoryAction(k, b, codes) => LookupOrCreates(k, b, codes)]_vars

\* C10: WithTerritory(codes) on a release sub-builder follows the same
\* lookup-or-create rule: when a section with that first code exists (the
\* default Worldwide section included) it becomes the focus and no section is
\* appended.
C10_ReleaseWithTerritoryIdempotent ==
    [][\A b \in BuildersOf("Release") : \A codes \in CodeLists :
          ReleaseWithTerritory(b, codes) => LookupOrCreates("Release", b, codes)]_vars

\* ---------------------------------------------------------------- C11

\* C11: every territory section of every video, image and release in the
\* message specifies inclusion codes or exclusion codes, never both and never
\* neither, sections created from an empty code list included.
C11_SectionsInclusionXorExclusion ==
    \A k \in {"Video", "Image", "Release"} : \A i \in 1..Len(Live(k)) :
    \A j \in 1..Len(Live(k)[i].DetailsByTerritory) :
        ~(Live(k)[i].DetailsByTerritory[j].TerritoryCode # <<>>
            <=> Live(k)[i].DetailsByTerritory[j].ExcludedTerritoryCode # <<>>)

\* ---------------------------------------------------------------- C12

\* C12: AddLinkedResource on a resource group builder whose group has no
\* content item changes nothing; otherwise it appends exactly one linked
\* reference to the most recently added content item and leaves the earlier
\* content items as they were; the link of a call made on an empty group is
\* not carried to a content item added later.
C12_AddLinkedResourceTargetsLast ==
    [][\A b \in BuildersOf("ResourceGroup") :
          /\ \A ref \in LinkRefs :
                AddLinkedResource(b, ref) =>
                   LET old == Items(b)
                       new == Items(b)'
                       n   == Len(old)
                   IN  IF n = 0 THEN new = <<>> /\ UNCHANGED treeVars
                       ELSE /\ Len(new) = n
                            /\ \A i \in 1..(n - 1) : new[i] = old[i]
                            /\ new[n].ReleaseResourceReference = old[n].ReleaseResourceReference
                            /\ new[n].LinkedReleaseResourceReference =
                                  Append(old[n].LinkedReleaseResourceReference, ref)
          /\ \A ref \in ItemRefs :
                AddContentItem(b, ref) =>
                   Items(b)' = Append(Items(b),
                                      [ReleaseResourceReference |-> ref,
                                       LinkedReleaseResourceReference |-> <<>>])]_vars

\* A group holds two content items; the link was attached to the second one.
C12_Witness ==
    \E b \in BuildersOf("ResourceGroup") :
        /\ Len(Items(b)) = 2
        /\ Items(b)[1].LinkedReleaseResourceReference = <<>>
        /\ Items(b)[2].LinkedReleaseResourceReference = <<"A2">>

\* ---------------------------------------------------------------- C13

\* Every content item reference and every linked reference names a video or
\* an image of the message, and every release deal wrapper names a release.
ValidReferences ==
    LET resources == {Live("Video")[i].ref : i \in 1..Len(Live("Video"))}
                     \cup {Live("Image")[i].ref : i \in 1..Len(Live("Image"))}
        releases == {Live("Release")[i].ref : i \in 1..Len(Live("Release"))}
        groups == Live("ResourceGroup")
        deals == Live("ReleaseDeal")
    IN  /\ \A g \in 1..Len(groups) : \A i \in 1..Len(groups[g].DetailsByTerritory) :
              LET item == groups[g].DetailsByTerritory[i]
              IN  /\ item.ReleaseResourceReference \in resources
                  /\ \A j \in 1..Len(item.LinkedReleaseResourceReference) :
                        item.LinkedReleaseResourceReference[j] \in resources
        /\ \A d \in 1..Len(deals) : deals[d].ref \in releases

\* C13: a message that ToXML or WriteToFile serializes without error has
\* valid reference relationships: content item references and linked
\* references name resources of the message, release deal wrappers name
\* releases of the message.
C13_SerializedHasValidReferences ==
    [][(ToXML \/ \E f \in Paths : WriteToFile(f)) /\ io'.err = NoError
           => ValidReferences]_vars

\* ---------------------------------------------------------------- C14

\* C14: WriteToFile ends in one of three ways: the marshal error wrapped in
\* "failed to marshal XML" with no write attempted and the file left alone;
\* the write error wrapped in "failed to write file"; or nil with the file
\* holding the XML declaration followed by the bytes of ToXML.  At most one
\* write is attempted, with the whole buffer, and the message is unchanged.
C14_WriteToFileThreeOutcomes ==
    [][\A f \in Paths : WriteToFile(f) =>
          LET buffer == <<XmlHeader>> \o ToXMLOf(io, MarshalIndent, NoError).out
          IN  /\ UNCHANGED <<headerVars, treeVars, root>>
              /\ Len(io'.written) <= 1
              /\ \A i \in 1..Len(io'.written) : io'.written[i] = buffer
              /\ \/ /\ \E merr \in MarshalErrors \ {NoError} :
                          io'.err = <<"failed to marshal XML: %w">> \o merr
                    /\ io'.written = <<>>
                    /\ io'.file = io.file
                 \/ /\ \E werr \in WriteErrors \ {NoError} :
                          io'.err = <<"failed to write file: %w">> \o werr
                    /\ Len(io'.written) = 1
                 \/ /\ io'.err = NoError
                    /\ Len(io'.written) = 1
                    /\ io'.file = buffer]_vars

\* A message with a release deal wrapper has been written: the file holds the
\* declaration and the document of the message.
C14_Witness ==
    /\ io.op = "WriteToFile"
    /\ io.err = NoError
    /\ Len(io.file) = 2
    /\ io.file[1] = XmlHeader
    /\ Len(io.file[2].ReleaseDeal) = 1

\* ---------------------------------------------------------------- C17

\* C17: the deal list holds at most one release deal wrapper for each
\* DealReleaseReference: AddReleaseDeal with a reference that already has a
\* wrapper does not put a second wrapper with that reference in the list.
C17_OneWrapperPerReference ==
    \A i, j \in 1..Len(Live("ReleaseDeal")) :
       Live("ReleaseDeal")[i].ref = Live("ReleaseDeal")[j].ref => i = j

\* ---------------------------------------------------------------- C18

DealSetters ==
    {"WithTerritories", "WithValidityPeriodStartDate", "WithValidityPeriodEndDate",
     "WithValidityPeriodDateTime", "WithCommercialModel", "WithUseType",
     "WithRightsClaimPolicy"}

SetterInputs(setter) ==
    CASE setter = "WithTerritories" -> DealCodeLists
      [] setter = "WithValidityPeriodStartDate" -> StartDates
      [] setter = "WithValidityPeriodEndDate" -> EndDates
      [] setter = "WithValidityPeriodDateTime" -> StartDateTimes
      [] setter = "WithCommercialModel" -> CommercialModels
      [] setter = "WithUseType" -> UseTypes
      [] setter = "WithRightsClaimPolicy" -> PolicyTypes

\* The field of the deal terms a setter writes.
OwnField(setter) ==
    CASE setter = "WithTerritories" -> "TerritoryCode"
      [] setter \in {"WithValidityPeriodStartDate", "WithValidityPeriodEndDate",
                     "WithValidityPeriodDateTime"} -> "ValidityPeriod"
      [] setter = "WithCommercialModel" -> "CommercialModelType"
      [] setter = "WithUseType" -> "Usage"
      [] setter = "WithRightsClaimPolicy" -> "RightsClaimPolicy"

\* Sequence new is sequence old with n more elements at its end.
Extends(old, new, n) ==
    /\ Len(new) = Len(old) + n
    /\ \A i \in 1..Len(old) : new[i] = old[i]

\* The setter wrote its own field of old, giving new, and kept what the
\* field held: a list grew at its end, a date replaced only that date of the
\* first validity period.
OnlyOwnField(old, new, setter, v) ==
    /\ \A f \in DOMAIN old \ {OwnField(setter)} : new[f] = old[f]
    /\ CASE setter = "WithTerritories" ->
               Extends(old.TerritoryCode, new.TerritoryCode, Len(v))
          [] setter = "WithValidityPeriodDateTime" ->
               /\ Extends(old.ValidityPeriod, new.ValidityPeriod, 1)
               /\ new.ValidityPeriod[Len(new.ValidityPeriod)].StartDateTime = v
          [] setter = "WithValidityPeriodStartDate" ->
               /\ Len(new.ValidityPeriod) = Len(FirstPeriod(old.ValidityPeriod))
               /\ new.ValidityPeriod =
                     [FirstPeriod(old.ValidityPeriod) EXCEPT ![1] =
                         [StartDate |-> v, EndDate |-> @.EndDate,
                          StartDateTime |-> @.StartDateTime]]
          [] setter = "WithValidityPeriodEndDate" ->
               /\ Len(new.ValidityPeriod) = Len(FirstPeriod(old.ValidityPeriod))
               /\ new.ValidityPeriod =
                     [FirstPeriod(old.ValidityPeriod) EXCEPT ![1] =
                         [StartDate |-> @.StartDate, EndDate |-> v,
                          StartDateTime |-> @.StartDateTime]]
          [] setter = "WithCommercialModel" ->
               Extends(old.CommercialModelType, new.CommercialModelType, 1)
          [] setter = "WithUseType" ->
               /\ Len(new.Usage) = 1
               /\ Extends(IF old.Usage = <<>> THEN <<>> ELSE old.Usage[1].UseType,
                          new.Usage[1].UseType, 1)
          [] setter = "WithRightsClaimPolicy" ->
               Extends(old.RightsClaimPolicy, new.RightsClaimPolicy, 1)

\* C18: a deal has no deal terms when AddDeal returns; every DealBuilder
\* setter leaves its deal with deal terms, allocates them only when there were
\* none (a later setter keeps the record the first one allocated), writes only
\* its own field of them and keeps what earlier setters put there; the other
\* deals of the wrapper, and what the other deal builders see, are unchanged.
C18_DealSettersInitLazily ==
    [][/\ AddDeal => \E n \in 1..(MaxDeals + 2) :
                        n = Len(builders["Deal"]) + 1 /\ Terms(n)' = <<>>
       /\ \A b \in BuildersOf("Deal"), setter \in DealSetters :
          \A v \in SetterInputs(setter) :
             DealSetter(b, setter, v) =>
                /\ Len(Terms(b)') = 1
                /\ Terms(b) # <<>> =>
                      TargetCell(Tree, "Deal", b).secs' = TargetCell(Tree, "Deal", b).secs
                /\ OnlyOwnField(IF Terms(b) = <<>> THEN NewDealTerms ELSE Terms(b)[1],
                                Terms(b)'[1], setter, v)
                /\ \A i \in 1..Len(Live("Deal")) :
                      i # builders["Deal"][b].ent.idx => Live("Deal")'[i] = Live("Deal")[i]
                /\ \A c \in BuildersOf("Deal") :
                      builders["Deal"][c].ent.idx # builders["Deal"][b].ent.idx
                         => View("Deal", c)' = View("Deal", c)]_vars

\* Two deals under the wrapper; the first has had two setters called on it and
\* holds both values, the second has no deal terms yet.
C18_Witness ==
    /\ Len(Live("Deal")) = 2
    /\ Len(builders["Deal"]) = 2
    /\ Terms(1) # <<>>
    /\ Terms(1)[1].TerritoryCode = <<"US">>
    /\ Terms(1)[1].ValidityPeriod =
          <<[StartDate |-> "2024-01-01", EndDate |-> "", StartDateTime |-> ""]>>
    /\ Terms(2) = <<>>

\* ---------------------------------------------------------------- C15

GrowsOnly(k, old, new) ==
    /\ Len(new) >= Len(old)
    /\ \A i \in 1..Len(old) :
          /\ new[i].ref = old[i].ref
          /\ new[i].Deal >= old[i].Deal
          /\ Len(new[i].DetailsByTerritory) >= Len(old[i].DetailsByTerritory)
          /\ k = "ResourceGroup" =>
                \A j \in 1..Len(old[i].DetailsByTerritory) :
                   new[i].DetailsByTerritory[j].ReleaseResourceReference =
                      old[i].DetailsByTerritory[j].ReleaseResourceReference

\* C16: no operation of the builder or of a sub-builder removes an entity: the
\* videos, images, releases, release deal wrappers, resource groups and deals
\* of the message, the deals of a wrapper, the territory sections of an entity
\* and the content items of a group never become fewer, and what was there
\* keeps its index and its reference.
C16_EntitiesOnlyGrow ==
    [][\A k \in Kinds : GrowsOnly(k, Live(k), Live(k)')]_vars

\* Two releases added one after the other, both in the list in that order,
\* and both sub-builder calls used.
C16_Witness ==
    /\ Len(Live("Release")) = 2
    /\ Live("Release")[1].ref = "R1"
    /\ Live("Release")[2].ref = "R2"
    /\ calls = MaxCalls

\* ---------------------------------------------------------------- C19

C20_DurationRoundTrip ==
    dur # <<>> /\ dur.parsed # <<>> =>
        dur.parsed[1] = [value |-> dur.seconds, err |-> NoError]

\* Two hours, two minutes and five seconds, a whole hour, a whole minute and
\* zero have each gone through both functions.
C20_Witness ==
    /\ dur # <<>>
    /\ dur.parsed # <<>>
    /\ dur.seconds = 7325
    /\ dur.text = <<FormatDuration(7325)>>
    /\ dur.text[1] = <<"P", "T", "2", "H", "2", "M", "5", "S">>
    /\ FormatDuration(3600) = <<"P", "T", "1", "H">>
    /\ FormatDuration(60) = <<"P", "T", "1", "M">>
    /\ FormatDuration(0) = <<"P", "T", "0", "S">>

\* ---------------------------------------------------------------- C21

\* The weights of the places before the check digit: 3,1,3,... for a UPC,
\* 1,3,1,... for an EAN.
Weight(fn, i) ==
    IF fn = "ValidateUPC" THEN (IF i % 2 = 1 THEN 3 ELSE 1)
    ELSE (IF i % 2 = 1 THEN 1 ELSE 3)

RECURSIVE Weighted(_, _, _)
Weighted(fn, s, i) ==
    IF i > Len(s) THEN 0 ELSE DigitOf(s[i]) * Weight(fn, i) + Weighted(fn, s, i + 1)

\* String s has n digits, the last one the check digit of the ones before.
WellFormed(fn, s, n) ==
    /\ Len(s) = n
    /\ \A i \in 1..Len(s) : IsDigit(s[i])
    /\ DigitOf(s[n]) = (10 - (Weighted(fn, SubSeq(s, 1, n - 1), 1) % 10)) % 10

\* C21: ValidateUPC returns true for exactly the strings of 12 digits, and
\* ValidateEAN for exactly the strings of 13 digits, whose last digit is the
\* weighted mod-10 check digit of the digits before it.
C21_CheckDigitValidators ==
    util # <<>> /\ util.out # <<>> =>
        /\ util.fn = "ValidateUPC" => (util.out[1] <=> WellFormed("ValidateUPC", util.arg, 12))
        /\ util.fn = "ValidateEAN" => (util.out[1] <=> WellFormed("ValidateEAN", util.arg, 13))

\* The sample UPC has been accepted; with another check digit, with a letter
\* in it or one digit longer it is rejected.
C21_Witness ==
    /\ util # <<>>
    /\ util.out = <<TRUE>>
    /\ util.arg = SampleUPC
    /\ ~ValidateUPC(Replace(SampleUPC, 12, "3"))
    /\ ~ValidateUPC(Replace(SampleUPC, 4, "A"))
    /\ ~ValidateUPC(Append(SampleUPC, "0"))
    /\ ValidateEAN(SampleEAN)

\* ---------------------------------------------------------------- C22

\* Character c is a letter or a digit.
IsAlphanumeric(c) == IsDigit(c) \/ c \in UpperChars \/ c = "a"

\* C22: ValidateDPID returns true for exactly the strings of 10 to 20
\* characters that are all letters or digits.
C22_DPIDLengthAndAlphanumeric ==
    util # <<>> /\ util.out # <<>> /\ util.fn = "ValidateDPID" =>
        (util.out[1] <=> /\ Len(util.arg) >= 10
                         /\ Len(util.arg) <= 20
                         /\ \A i \in 1..Len(util.arg) : IsAlphanumeric(util.arg[i]))

\* ---------------------------------------------------------------- C23

\* C23: encoding a DateTime writes no element for the zero time and exactly
\* one otherwise; decoding what was written gives no error and the time that
\* was encoded, the zero time for the zero time.
C23_DateTimeRoundTrip ==
    util # <<>> /\ util.fn = "DateTime" /\ util.out # <<>> =>
        /\ Len(util.out[1].doc) = (IF util.arg = ZeroTime THEN 0 ELSE 1)
        /\ util.out[1].decoded # <<>> =>
              util.out[1].decoded[1] = [time |-> util.arg, err |-> NoError]

\* ---------------------------------------------------------------- C24

\* The two date lists of release e have the same length and, place by place,
\* the same date.
SameDates(e) ==
    /\ Len(e.ReleaseDate) = Len(e.OriginalReleaseDate)
    /\ \A i \in 1..Len(e.ReleaseDate) :
          /\ i <= Len(e.OriginalReleaseDate)
          /\ e.ReleaseDate[i].Value = e.OriginalReleaseDate[i].Value

\* C24: after any calls on the 4.3 release builders, every release of the
\* message, and every release a release builder points to, has a ReleaseDate
\* list and an OriginalReleaseDate list of the same length with the same
\* dates in the same places.
C24_ReleaseDatesConsistent ==
    /\ \A i \in 1..Len(Live("Release")) : SameDates(Live("Release")[i])
    /\ \A b \in BuildersOf("Release") : SameDates(View("Release", b))

\* A release on which WithReleaseDate was called twice with different dates,
\* next to a second release.
C24_Witness ==
    /\ Len(Live("Release")) = 2
    /\ \E b \in BuildersOf("Release") :
          /\ Len(View("Release", b).ReleaseDate) = 2
          /\ View("Release", b).ReleaseDate[1].Value = "2023"
          /\ View("Release", b).OriginalReleaseDate[2].Value = "2023-12-01"

\* ---------------------------------------------------------------- C25

\* The place in section list secs that WithTerritory(codes) selects: that of
\* the first section with the same first code, or the one after the last.
Selected(secs, codes) ==
    IF \E i \in 1..Len(secs) : Len(codes) > 0 /\ Len(secs[i].TerritoryCode) > 0
                                /\ secs[i].TerritoryCode[1] = codes[1]
    THEN CHOOSE i \in 1..Len(secs) :
            /\ Len(secs[i].TerritoryCode) > 0 /\ secs[i].TerritoryCode[1] = codes[1]
            /\ \A j \in 1..(i - 1) :
                  Len(secs[j].TerritoryCode) = 0 \/ secs[j].TerritoryCode[1] # codes[1]
    ELSE Len(secs) + 1

\* Section list new is list old with value v appended to field of the
\* section at place sel (a new default section when sel is past the end),
\* and nothing else changed.
AppendedAt(old, new, sel, field, v) ==
    LET base == IF sel <= Len(old) THEN old[sel]
                ELSE [TerritoryCode |-> <<"Worldwide">>, ExcludedTerritoryCode |-> <<>>,
                      Title |-> <<>>, ParentalWarningType |-> <<>>]
    IN  /\ Len(new) = (IF sel <= Len(old) THEN Len(old) ELSE sel)
        /\ \A i \in 1..Len(old) : i # sel => new[i] = old[i]
        /\ new[sel] = [base EXCEPT ![field] = Append(@, v)]

\* C25: on a video or image sub-builder, WithTerritory puts the focus on the
\* section it selected in the section list the resource stores, and a
\* territory-scoped setter appends its value to the section in focus (the
\* default section when there is no focus yet) where the resource stores it,
\* changes no other section and keeps the focus; also after switching back to
\* an earlier section when the list has grown.
C25_SetterWritesSelectedSection ==
    [][\A k \in {"Video", "Image"} : \A b \in BuildersOf(k) :
        LET old == Live(k)[b].DetailsByTerritory
            new == Live(k)'[b].DetailsByTerritory
            cur == builders[k][b].cur
        IN  /\ \A codes \in FocusCodeLists :
                 WithTerritoryAction(k, b, codes) =>
                    /\ builders'[k][b].cur =
                          <<[arr |-> TargetCell(Tree, k, b).secs.arr',
                             idx |-> Selected(old, codes)]>>
                    /\ \A i \in 1..Len(old) : new[i] = old[i]
            /\ \A field \in {"Title", "ParentalWarningType"} :
               \A v \in IF field = "Title" THEN {"X"} ELSE Warnings :
                 ((k = "Video" <=> field = "Title")
                  /\ TerritorySetterAction(k, b, field, v)) =>
                    /\ AppendedAt(old, new,
                                  IF cur = <<>> THEN Selected(old, <<"Worldwide">>)
                                  ELSE cur[1].idx,
                                  field, v)
                    /\ cur # <<>> => builders'[k][b].cur = cur]_vars

\* A title set after switching back to the first of two sections is in the
\* first section, and the second section has none.
C25_Witness ==
    /\ Len(Live("Video")) = 1
    /\ Len(Live("Video")[1].DetailsByTerritory) = 2
    /\ builders["Video"][1].cur # <<>>
    /\ builders["Video"][1].cur[1].idx = 1
    /\ Live("Video")[1].DetailsByTerritory[1].Title = <<"X">>
    /\ Live("Video")[1].DetailsByTerritory[2].Title = <<>>

\* ---------------------------------------------------------------- C26

\* C26: the territory sections of a video or an image that have a code list
\* have pairwise different first territory codes.
C26_FirstCodesDistinct ==
    \A k \in {"Video", "Image"} : \A e \in 1..Len(Live(k)) :
       LET secs == Live(k)[e].DetailsByTerritory
       IN  \A i, j \in 1..Len(secs) :
              (/\ Len(secs[i].TerritoryCode) > 0
               /\ Len(secs[j].TerritoryCode) > 0
               /\ secs[i].TerritoryCode[1] = secs[j].TerritoryCode[1]) => i = j

\* An image with a US section and a Worldwide section, back on the US one.
C26_Witness ==
    /\ Len(Live("Image")) = 1
    /\ Len(Live("Image")[1].DetailsByTerritory) = 2
    /\ Live("Image")[1].DetailsByTerritory[1].TerritoryCode = <<"US">>
    /\ Live("Image")[1].DetailsByTerritory[2].TerritoryCode = <<"Worldwide">>
    /\ builders["Image"][1].cur # <<>>
    /\ builders["Image"][1].cur[1].idx = 1

\* ---------------------------------------------------------------- C27

\* The message with f[i] deals inside its i-th release deal wrapper.
WithDealCounts(nrm, f) ==
    [nrm EXCEPT !.DealList =
        <<[ReleaseDeal |->
             [i \in 1..Len(nrm.DealList[1].ReleaseDeal) |->
                 [nrm.DealList[1].ReleaseDeal[i] EXCEPT !.Deal = f[i]]]]>>]

\* C27: the outcome of Validate is the same for every content of the release
\* deal wrappers of the message (no deal or some deals in any wrapper), and a
\* call of Validate leaves the message as it was.
C27_ValidateIgnoresDeals ==
    /\ [](LET nrm == Message
               outcome == Validate(nrm)
           IN  \A f \in [1..Len(nrm.DealList[1].ReleaseDeal) -> 0..MaxDeals] :
                  Validate(WithDealCounts(nrm, f)) = outcome)
    /\ [][CallValidate => /\ Message' = Message
                          /\ verdict' = <<Validate(Message)>>]_vars

\* A validated message with a wrapper that holds no deal and a wrapper that
\* holds one.
C27_Witness ==
    /\ verdict = <<NoError>>
    /\ Validate(Message) = NoError
    /\ Len(Live("ReleaseDeal")) = 2
    /\ Live("ReleaseDeal")[1].Deal = 0
    /\ Live("ReleaseDeal")[2].Deal > 0

\* ---------------------------------------------------------------- C28

\* The validity periods of the deal terms builder b sees on tree t.
PeriodsOf(t, b) ==
    IF TermsOf(t, b) = <<>> THEN <<>> ELSE TermsOf(t, b)[1].ValidityPeriod

\* Periods new are periods old with the given field of period 0 set to v:
\* period 0 is created empty when old has no period, no period is added when
\* it has one, and nothing else is written.
WroteFirstPeriod(old, new, field, v) ==
    /\ Len(new) = IF Len(old) = 0 THEN 1 ELSE Len(old)
    /\ new[1][field] = v
    /\ \A f \in DOMAIN NewValidityPeriod \ {field} :
          new[1][f] = IF Len(old) = 0 THEN "" ELSE old[1][f]
    /\ \A i \in 2..Len(old) : new[i] = old[i]

\* What the deals and the deal builders show on tree t.
DealsShown(t) ==
    [deals |-> LiveOf(t, "Deal"),
     views |-> [b \in 1..Len(t.bld["Deal"]) |-> ViewOf(t, "Deal", b)],
     terms |-> [b \in 1..Len(t.bld["Deal"]) |-> TermsOf(t, b)]]

\* The two date setters, called on builders b and c in either order, leave
\* the same deals.
DateSettersCommute ==
    \A b, c \in BuildersOf("Deal") : \A s \in StartDates, e \in EndDates :
       DealsShown(DealSetterOf(DealSetterOf(Tree, b, "WithValidityPeriodStartDate", s),
                               c, "WithValidityPeriodEndDate", e))
       = DealsShown(DealSetterOf(DealSetterOf(Tree, c, "WithValidityPeriodEndDate", e),
                                 b, "WithValidityPeriodStartDate", s))

\* C28: WithValidityPeriodStartDate and WithValidityPeriodEndDate add no
\* validity period when the deal has one, create period 0 only when it has
\* none, and overwrite only their own field of period 0, so the two calls
\* commute from every state; WithValidityPeriodDateTime always appends a new
\* period and keeps the earlier ones.
C28_DateSettersWriteFirstPeriod ==
    /\ []DateSettersCommute
    /\ [][\A b \in BuildersOf("Deal") :
            /\ \A s \in StartDates :
                  DealWithValidityPeriodStartDate(b, s) =>
                     WroteFirstPeriod(PeriodsOf(Tree, b), PeriodsOf(Tree, b)',
                                      "StartDate", s)
            /\ \A e \in EndDates :
                  DealWithValidityPeriodEndDate(b, e) =>
                     WroteFirstPeriod(PeriodsOf(Tree, b), PeriodsOf(Tree, b)',
                                      "EndDate", e)
            /\ \A d \in StartDateTimes :
                  DealWithValidityPeriodDateTime(b, d) =>
                     /\ Extends(PeriodsOf(Tree, b), PeriodsOf(Tree, b)', 1)
                     /\ PeriodsOf(Tree, b)'[Len(PeriodsOf(Tree, b)')] =
                           [NewValidityPeriod EXCEPT !.StartDateTime = d]]_vars

\* A deal whose only validity period came from WithValidityPeriodDateTime and
\* then had its end date written.
C28_Witness ==
    \E b \in BuildersOf("Deal") :
       /\ Len(PeriodsOf(Tree, b)) = 1
       /\ PeriodsOf(Tree, b)[1].StartDateTime # ""
       /\ PeriodsOf(Tree, b)[1].EndDate # ""
       /\ PeriodsOf(Tree, b)[1].StartDate = ""

\* ---------------------------------------------------------------- C29

\* Entries new are entries old with one proprietary id more at the end of the
\* ids of entry 0: entry 0 is created empty when old has no entry, no entry is
\* added when it has one, and no other entry is written.
AttachedToFirst(old, new, id) ==
    LET first == IF Len(old) = 0 THEN NewReleaseId ELSE old[1]
    IN  /\ Len(new) = IF Len(old) = 0 THEN 1 ELSE Len(old)
        /\ new[1] = [first EXCEPT !.ProprietaryId = Append(@, id)]
        /\ \A i \in 2..Len(old) : new[i] = old[i]

\* On a release without identifiers, AddProprietaryId before WithICPN gives a
\* leading entry of its own, and after WithICPN it lands in the ICPN's entry.
OrderMatters ==
    \A b \in BuildersOf("Release") : \A icpn \in Icpns :
    \A n \in Namespaces, v \in ProprietaryValues :
    \A c1 \in IdCaps(b) :
       LET id == NewProprietaryId(n, v)
           before == AddProprietaryIdOf(Tree, b, n, v, c1)
           after == WithIdOf(Tree, b, "ICPN", icpn, c1)
       IN  Len(View("Release", b).ReleaseId) = 0 =>
              /\ \A c2 \in GrowCaps(TargetCell(before, "Release", b).ReleaseId) :
                    ViewOf(WithIdOf(before, b, "ICPN", icpn, c2), "Release", b).ReleaseId
                    = <<[NewReleaseId EXCEPT !.ProprietaryId = <<id>>],
                        [NewReleaseId EXCEPT !.ICPN = icpn]>>
              /\ \A c2 \in GrowCaps(TargetCell(after, "Release", b).ReleaseId) :
                    ViewOf(AddProprietaryIdOf(after, b, n, v, c2), "Release", b).ReleaseId
                    = <<[NewReleaseId EXCEPT !.ICPN = icpn, !.ProprietaryId = <<id>>]>>

\* C29: ReleaseBuilder.AddProprietaryId attaches the id to the first
\* ReleaseId entry of its release: it appends an empty entry only when the
\* release has none, keeps the number of entries when there is one, and
\* leaves every entry but the first as it was; the result depends on whether
\* it is called before or after WithICPN.
C29_ProprietaryIdOnFirstEntry ==
    /\ []OrderMatters
    /\ [][\A b \in BuildersOf("Release") :
          \A n \in Namespaces, v \in ProprietaryValues :
            ReleaseAddProprietaryId(b, n, v) =>
               AttachedToFirst(View("Release", b).ReleaseId,
                               View("Release", b).ReleaseId',
                               NewProprietaryId(n, v))]_vars

\* A release whose proprietary id landed inside the entry of its ICPN, with a
\* second entry after it.
C29_Witness ==
    \E b \in BuildersOf("Release") :
       /\ Len(View("Release", b).ReleaseId) = 2
       /\ View("Release", b).ReleaseId[1].ICPN # ""
       /\ Len(View("Release", b).ReleaseId[1].ProprietaryId) = 1
       /\ View("Release", b).ReleaseId[2].ProprietaryId = <<>>

\* ---------------------------------------------------------------- C30

\* Editions new are editions old after a setter: one edition, which is
\* edition 0 of old (or an empty one when old has none) with the field
\* holding v.
WroteEdition(old, new, field, v) ==
    new = <<[IF Len(old) = 0 THEN NewVideoEdition ELSE old[1] EXCEPT ![field] = v]>>

\* The resource ids of edition 0, none when there is no edition.
IdsOf(eds) == IF Len(eds) = 0 THEN <<>> ELSE eds[1].ResourceId

\* C30: a video has at most one VideoEdition; WithPLine, WithTechnicalDetails,
\* WithISRC and AddProprietaryId create edition 0 only when the video has none
\* and write into edition 0; WithPLine and WithTechnicalDetails replace what
\* the edition held (the last call wins), WithISRC and AddProprietaryId append
\* to its resource ids.
C30_OneEditionPerVideo ==
    /\ [](\A b \in BuildersOf("Video") : Len(View("Video", b).VideoEdition) <= 1)
    /\ [](\A i \in 1..Len(Live("Video")) : Len(Live("Video")[i].VideoEdition) <= 1)
    /\ [][\A b \in BuildersOf("Video") :
          LET old == View("Video", b).VideoEdition
              new == View("Video", b).VideoEdition'
          IN  /\ \A p \in PLines :
                    VideoWithPLine(b, p) => WroteEdition(old, new, "PLine", <<p>>)
              /\ \A r \in TechRefs, f \in FileURIs :
                    VideoWithTechnicalDetails(b, r, f) =>
                       WroteEdition(old, new, "TechnicalDetails",
                                    NewTechnicalDetails(r, f))
              /\ \A v \in Isrcs :
                    VideoWithISRC(b, v) =>
                       WroteEdition(old, new, "ResourceId",
                                    Append(IdsOf(old), [NewVideoId EXCEPT !.ISRC = v]))
              /\ \A n \in Namespaces, v \in ProprietaryValues :
                    VideoAddProprietaryId(b, n, v) =>
                       WroteEdition(old, new, "ResourceId",
                           Append(IdsOf(old),
                                  [NewVideoId EXCEPT
                                      !.ProprietaryId = <<NewProprietaryId(n, v)>>]))]_vars

\* A video whose one edition holds a P-line, technical details, an ISRC and a
\* proprietary id after it.
C30_Witness ==
    /\ Len(Live("Video")) = 1
    /\ Len(Live("Video")[1].VideoEdition) = 1
    /\ Len(Live("Video")[1].VideoEdition[1].PLine) = 1
    /\ Live("Video")[1].VideoEdition[1].PLine[1].Year = 2024
    /\ Len(Live("Video")[1].VideoEdition[1].TechnicalDetails) = 1
    /\ Len(Live("Video")[1].VideoEdition[1].ResourceId) = 2
    /\ Live("Video")[1].VideoEdition[1].ResourceId[1].ISRC # ""
    /\ Live("Video")[1].VideoEdition[1].ResourceId[2].ProprietaryId # <<>>

====
